---- MODULE Spec2Model ----
(***************************************************************************)
(* A model of the teardown build inspector (tramlinehq/teardown).         *)
(*                                                                         *)
(* The module holds one state machine per decoder and one for the parse   *)
(* request pipeline:                                                       *)
(*   bp*  BPlistParser            src/js/bplist-parser.js                  *)
(*   ax*  AXMLParser              src/js/main.js                           *)
(* Each machine has its own specification; the variables of the other     *)
(* machines stay at their initial value.                                   *)
(***************************************************************************)
EXTENDS Integers, Sequences, FiniteSets, TLC

(***************************************************************************)
(* Bounds of the model.                                                    *)
(***************************************************************************)
\* number of entries of the bplist offset table (numObjects)
MaxObjects == 2
\* largest number of object references one array / set / dict holds
MaxRefs == 2
\* depth at which the JavaScript engine gives up on nested calls (it
\* raises RangeError: Maximum call stack size exceeded)
MaxStack == 4
\* size of the AXML buffer, in 32-bit words
MaxBufWords == 16
\* number of START_ELEMENT chunks followed in one AXML parse
MaxNodes == 2
\* largest attrCount of a START_ELEMENT chunk
MaxAttrs == 1
\* largest number of child elements of a proto manifest
MaxChildren == 1
\* number of files handed to the page in one run
MaxFiles == 2
\* largest number of search-list icon entries present in an IPA
MaxIconEntries == 1
\* largest width and height of a CgBI image, in pixels
MaxWidth == 2
MaxHeight == 2
\* largest number of children of <application>, and of children of each
MaxActivities == 2
MaxFilters == 2
\* largest number of entries of an archive
MaxEntries == 3
\* the longest buffer of arbitrary bytes given to ProtoDecoder
MaxBytes == 4
\* the most empty groups added above a varint
MaxPad == 6

\* most entries of an archive given to _extractIcon
MaxIcons == 2

VARIABLES
  \* ---- BPlistParser (one instance per parse call) ----
  bpStatus,      \* "idle" | "running" | "returned" | "thrown"
  offsets,       \* this.offsets with the object each offset points at
  topIndex,      \* trailer: topObjectIndex
  bpStack,       \* the _parseArray/_parseDict activations in progress
  bpCall,        \* <<index>>: a pending call _parseObject(index); <<>>: none
  bpRet,         \* <<value>>: a value being returned to the caller; <<>>: none
  parsed,        \* this._parsed: object index -> parsed value
  bpParseCount,  \* per index, how often the type switch of _parseObject ran
  bpResolved,    \* per index, the values _parseObject(index) has returned
  bpResult,      \* what parse() returned
  \* ---- AXMLParser (one instance per parse call) ----
  axStatus,      \* "idle" | "loop" | "returned" | "thrown"
  axLen,         \* this.buffer.byteLength
  axType,        \* the opening 16-bit type (-1: the buffer has no 2 bytes)
  axFileSize,    \* the file size the header declares
  offset,        \* this.offset
  strings,       \* this.strings
  resourceIds,   \* this.resourceIds (its length)
  namespaces,    \* this.namespaces: uri -> prefix
  axNodes,       \* the elements created so far, in order of creation
  stack,         \* the element stack: 0 is root, k is axNodes[k]
  axResult,      \* what parse() returned: a node, or the error thrown
  \* ---- ProtoXMLParser (one instance per parse call) ----
  pxStatus,      \* "idle" | "constructed" | "returned" | "thrown"
  pxDoc,         \* the manifest the buffer was written out from
  pxBuf,         \* this.buf, a sequence of bytes
  pxNamespaces,  \* this.namespaces: uri -> prefix
  pxResult,      \* what parse() returned: an element, null, or the error thrown
  pxDropped,     \* this.namespaces of the instance the call before this one used
  \* ---- the page (main.js) and the calls of handleFile ----
  hidden,        \* per element: does its classList hold 'hidden'
  resultsHTML,   \* the file whose info results.innerHTML renders (0: none)
  errorText,     \* errorDiv.textContent: the file and the message
  picker,        \* the file picker of fileInput is open
  submitted,     \* the number of files handed to handleFile so far
  calls,         \* per file, its handleFile call: where it is suspended,
                 \* the archive, the info object, the steps completed
  \* ---- AABParser._parseManifestBuffer (one call) ----
  mbPc,          \* "idle" | "proto" | "axml" | "returned" | "thrown"
  mbBuf,         \* buf, a sequence of bytes
  mbTried,       \* the decoders run so far, each with whether it threw
  mbResult,      \* what the call returned, or the error it threw
  \* ---- CrushedPNG._uncrush (one call) ----
  pngPc,         \* "idle" | "rawInflate" | "toBlob" | "rejected"
  ihdr,          \* the IHDR chunk, if any, and the fields read from it
  inflated,      \* the bytes _rawInflate gave
  rgba,          \* the plane _decodePixels returned
  pngError,      \* the message of the error the call rejected with
  \* ---- the projection into the BuildInfo ----
  projPc,        \* "idle" | "libs" | "manifest": what was projected
  archive,       \* the type of the archive and Object.keys(zip.files)
  architectures, \* info.architectures
  application,   \* the <application> element of the manifest tree
  activities,    \* info.activities
  \* ---- ProtoDecoder (one instance, one call) ----
  pdPc,          \* "idle" | "constructed" | "varint" | "readFields" | "parse"
  pdSrc,         \* what the buffer was written from
  pdBuf,         \* this.bytes, a sequence of bytes
  pdStart,       \* this.pos as the constructor set it
  pdEnd,         \* this.end
  pdOut,         \* what the call returned, or the error it threw
  \* ---- _extractIcon on its own ----
  ixPc,          \* idle, new (parse is at its icon step), done, rejected
  ixKind,        \* apk or aab
  ixZip,         \* the entry names of the archive, in the order of Object.keys(zip.files)
  ixInfo,        \* info.iconPath and info.icon
  ixVia          \* the step of _extractIcon that found the entry, or none

bpVars == <<bpStatus, offsets, topIndex, bpStack, bpCall, bpRet, parsed,
            bpParseCount, bpResolved, bpResult>>

axVars == <<axStatus, axLen, axType, axFileSize, offset, strings,
            resourceIds, namespaces, axNodes, stack, axResult>>

pxVars == <<pxStatus, pxDoc, pxBuf, pxNamespaces, pxResult, pxDropped>>

uiVars == <<hidden, resultsHTML, errorText, picker, submitted, calls>>

mbVars == <<mbPc, mbBuf, mbTried, mbResult>>

pngVars == <<pngPc, ihdr, inflated, rgba, pngError>>

projVars == <<projPc, archive, architectures, application, activities>>

pdVars == <<pdPc, pdSrc, pdBuf, pdStart, pdEnd, pdOut>>

ixVars == <<ixPc, ixKind, ixZip, ixInfo, ixVia>>

vars == <<bpVars, axVars, pxVars, uiVars, mbVars, pngVars, projVars,      pdVars,
          ixVars>>

(***************************************************************************)
(* BPlistParser                                                            *)
(*                                                                         *)
(* The file is taken at the level of its objects: offsets[i] is the       *)
(* object the i-th offset-table entry points at, given by its marker      *)
(* type and, for a container, by the object references it holds in the    *)
(* order the decoder resolves them (a dict: key, value, key, value ...).  *)
(* A reference may name any index, its own and indices beyond the table   *)
(* included: nothing in the format's bytes prevents it.                    *)
(***************************************************************************)
Indices == 0 .. (MaxObjects - 1)
\* what a reference of objectRefSize bytes can hold: one value past the table
RefValues == 0 .. MaxObjects

RefSeqs(lens) == UNION {[1 .. n -> RefValues] : n \in lens}

BPObjects ==
       {[type |-> t, refs |-> <<>>] : t \in {"simple", "ascii", "unknown"}}
  \cup {[type |-> t, refs |-> r] : t \in {"array"}, r \in RefSeqs(0 .. MaxRefs)}
  \cup {[type |-> "dict", refs |-> r] :
           r \in RefSeqs({2 * k : k \in 0 .. (MaxRefs \div 2)})}

JsNull == [t |-> "null"]
JsUndefined == [t |-> "undefined"]
\* a thrown Error, by its message (or, for an engine error, its class)
JsError(msg) == [t |-> "error", message |-> msg]

\* this.bytes[this.offsets[index]]: an index beyond the table gives
\* offsets[index] = undefined and marker = undefined, so type = 0, info = 0
ObjectAt(index) ==
  IF index \in DOMAIN offsets THEN offsets[index]
  ELSE [type |-> "simple", refs |-> <<>>]

IsContainer(obj) == obj.type \in {"array", "dict"}

\* the value of the type switch for an object that holds no references
LeafValue(obj) ==
  CASE obj.type = "simple"  -> JsNull
    [] obj.type = "ascii"   -> [t |-> "string", s |-> "shared"]
    [] obj.type = "unknown" -> JsUndefined
    [] OTHER                -> [t |-> obj.type, items |-> <<>>]

BPInit ==
  /\ bpStatus = "idle"
  /\ offsets = <<>>
  /\ topIndex = 0
  /\ bpStack = <<>>
  /\ bpCall = <<>>
  /\ bpRet = <<>>
  /\ parsed = <<>>
  /\ bpParseCount = [i \in RefValues |-> 0]
  /\ bpResolved = [i \in RefValues |-> {}]
  /\ bpResult = JsUndefined

\* everything outside the bplist machine
BPOthers == UNCHANGED <<axVars, pxVars, uiVars, mbVars, pngVars, projVars,
    pdVars,
    ixVars>>

\* parse(): magic check, trailer, offset table, _parseObject(topIndex)
BPParse ==
  /\ bpStatus = "idle"
  /\ \E magicOk \in BOOLEAN, objs \in [Indices -> BPObjects], top \in RefValues :
       IF ~magicOk
       THEN /\ bpStatus' = "thrown"
            /\ bpResult' = JsError("Not a binary plist file")
            /\ UNCHANGED <<offsets, topIndex, bpCall>>
       ELSE /\ bpStatus' = "running"
            /\ offsets' = objs
            /\ topIndex' = top
            /\ bpCall' = <<top>>
            /\ UNCHANGED bpResult
  /\ UNCHANGED <<bpStack, bpRet, parsed, bpParseCount, bpResolved>>
  /\ BPOthers

\* _parseObject(index), lines 48-74, up to the first nested call: the cache
\* lookup, then the type switch; the cache is written only once the value
\* of the object is complete (line 72, after the switch)
MemoHit(index) == index \in DOMAIN parsed

ParseObject ==
  /\ bpStatus = "running"
  /\ bpCall # <<>>
  /\ LET index == bpCall[1]
         obj == ObjectAt(index)
     IN IF MemoHit(index)
        THEN /\ bpRet' = <<parsed[index]>>
             /\ bpCall' = <<>>
             /\ bpResolved' = [bpResolved EXCEPT ![index] = @ \cup {parsed[index]}]
             /\ UNCHANGED <<bpStatus, bpStack, parsed, bpParseCount, bpResult>>
        ELSE IF ~IsContainer(obj) \/ obj.refs = <<>>
        THEN /\ bpParseCount' = [bpParseCount EXCEPT ![index] = @ + 1]
             /\ parsed' = (index :> LeafValue(obj)) @@ parsed
             /\ bpRet' = <<LeafValue(obj)>>
             /\ bpCall' = <<>>
             /\ bpResolved' = [bpResolved EXCEPT ![index] = @ \cup {LeafValue(obj)}]
             /\ UNCHANGED <<bpStatus, bpStack, bpResult>>
        ELSE IF Len(bpStack) >= MaxStack
        THEN \* the engine's call stack is exhausted: RangeError
             /\ bpStatus' = "thrown"
             /\ bpResult' = JsError("RangeError")
             /\ bpCall' = <<>>
             /\ UNCHANGED <<bpStack, bpRet, parsed, bpParseCount, bpResolved>>
        ELSE /\ bpParseCount' = [bpParseCount EXCEPT ![index] = @ + 1]
             /\ bpStack' = Append(bpStack, [index |-> index, items |-> <<>>])
             /\ bpCall' = <<obj.refs[1]>>
             /\ UNCHANGED <<bpStatus, bpRet, parsed, bpResolved, bpResult>>
  /\ UNCHANGED <<offsets, topIndex>>
  /\ BPOthers

\* the return of a _parseObject call: to parse() when no container is in
\* progress, else into the loop of _parseArray (127-136) / _parseDict
\* (138-149), which resolves its next reference or completes, and then
\* _parseObject caches the container (line 72) and returns it
ParseContainer ==
  /\ bpStatus = "running"
  /\ bpRet # <<>>
  /\ IF bpStack = <<>>
     THEN /\ bpStatus' = "returned"
          /\ bpResult' = bpRet[1]
          /\ bpRet' = <<>>
          /\ UNCHANGED <<bpStack, bpCall, parsed, bpResolved>>
     ELSE LET top == bpStack[Len(bpStack)]
              obj == ObjectAt(top.index)
              items == Append(top.items, bpRet[1])
              value == [t |-> obj.type, items |-> items]
          IN IF Len(items) < Len(obj.refs)
             THEN /\ bpStack' = [bpStack EXCEPT ![Len(bpStack)].items = items]
                  /\ bpCall' = <<obj.refs[Len(items) + 1]>>
                  /\ bpRet' = <<>>
                  /\ UNCHANGED <<bpStatus, bpResult, parsed, bpResolved>>
             ELSE /\ bpStack' = SubSeq(bpStack, 1, Len(bpStack) - 1)
                  /\ parsed' = (top.index :> value) @@ parsed
                  /\ bpRet' = <<value>>
                  /\ bpResolved' = [bpResolved EXCEPT ![top.index] = @ \cup {value}]
                  /\ UNCHANGED <<bpStatus, bpResult, bpCall>>
  /\ UNCHANGED <<offsets, topIndex, bpParseCount>>
  /\ BPOthers

BPNext == BPParse \/ ParseObject \/ ParseContainer

(***************************************************************************)
(* C1: BPlistParser.parse terminates on every input whose reference graph *)
(* has a cycle: an index that is being resolved is never entered again,   *)
(* so no index occurs twice among the activations in progress and the     *)
(* recursion depth stays within the number of objects.                    *)
(***************************************************************************)
C1_NoReDescent ==
  /\ Len(bpStack) <= MaxObjects
  /\ \A i, j \in 1 .. Len(bpStack) : bpStack[i].index = bpStack[j].index => i = j
  /\ bpResult # JsError("RangeError")

(***************************************************************************)
(* C2: during one parse call the type-specific parse of an object index   *)
(* runs at most once, and every resolution of the index returns the same  *)
(* value.                                                                  *)
(***************************************************************************)
C2_ParsedAtMostOnce ==
  \A i \in RefValues :
    /\ bpParseCount[i] <= 1
    /\ Cardinality(bpResolved[i]) <= 1

(***************************************************************************)
(* C17: a reference to an index outside the offset table is never decoded *)
(* into a value: no resolution of such an index returns, and a parse that *)
(* has followed one ends with a thrown error.                              *)
(***************************************************************************)
C17_OutOfTableIsError ==
  \A i \in RefValues \ DOMAIN offsets :
    /\ bpResolved[i] = {}
    /\ (bpParseCount[i] > 0 /\ bpStatus \notin {"idle", "running"}) => bpStatus = "thrown"

(***************************************************************************)
(* AXMLParser                                                              *)
(*                                                                         *)
(* The buffer is given by its length and by the fields the decoder reads  *)
(* from it; every read is checked against the length as DataView checks   *)
(* it (a read that leaves the buffer raises RangeError).  The fields of a *)
(* chunk are drawn when the chunk is reached.                              *)
(***************************************************************************)
RES_STRING_POOL_TYPE == 1
RES_XML_TYPE == 3
RES_XML_START_NAMESPACE_TYPE == 256
RES_XML_END_NAMESPACE_TYPE == 257
RES_XML_START_ELEMENT_TYPE == 258
RES_XML_END_ELEMENT_TYPE == 259
RES_XML_CDATA_TYPE == 260
RES_XML_RESOURCE_MAP_TYPE == 384

TYPE_NULL == 0
TYPE_REFERENCE == 1
TYPE_ATTRIBUTE == 2
TYPE_STRING == 3
TYPE_FLOAT == 4
TYPE_DIMENSION == 5
TYPE_FRACTION == 6
TYPE_INT_DEC == 16
TYPE_INT_HEX == 17
TYPE_INT_BOOLEAN == 18

JsString(s) == [t |-> "string", s |-> s]
JsNumber(n) == [t |-> "number", n |-> n]
JsBoolean(b) == [t |-> "boolean", b |-> b]

HexDigits == <<"0", "1", "2", "3", "4", "5", "6", "7",
               "8", "9", "a", "b", "c", "d", "e", "f">>

\* Number.prototype.toString(16) of a non-negative integer
RECURSIVE ToString16(_)
ToString16(n) ==
  IF n < 16 THEN HexDigits[n + 1]
  ELSE ToString16(n \div 16) \o HexDigits[(n % 16) + 1]

\* String(n) of a non-negative integer
RECURSIVE ToString10(_)
ToString10(n) ==
  IF n < 10 THEN HexDigits[n + 1]
  ELSE ToString10(n \div 10) \o HexDigits[(n % 10) + 1]

\* the string a value becomes in a template literal or a property key
ToStr(v) ==
  CASE v.t = "string"  -> v.s
    [] v.t = "null"    -> "null"
    [] v.t = "number"  -> ToString10(v.n)
    [] v.t = "boolean" -> IF v.b THEN "true" ELSE "false"
    [] OTHER           -> "undefined"

\* JavaScript truthiness of a string or null
Truthy(v) == v.t = "string" /\ v.s # ""

\* where the buffers and the chunk fields of the model are drawn from
BufLens == {4 * k : k \in 0 .. MaxBufWords}
FileSizes(len) == {44, len, len + 8}
ChunkSizes == {0, 8, 36, 56}
StringPools ==
  { <<>>,
    <<"manifest", "">>,
    <<"manifest", "package", "android", "http://schemas.android.com/apk/res/android">>,
    <<"manifest", "package", "android", "constructor">> }
\* string-pool indices as the chunks hold them; 9 is beyond every pool
PoolIdx == {0, 2, 3, 9}
AttrInputs ==
  { [ns |-> -1, name |-> 1, raw |-> 0,  type |-> TYPE_STRING,      data |-> 0],
    [ns |-> 3,  name |-> 1, raw |-> -1, type |-> TYPE_INT_DEC,     data |-> 42],
    [ns |-> 3,  name |-> 1, raw |-> 9,  type |-> TYPE_STRING,      data |-> 9],
    [ns |-> 9,  name |-> 9, raw |-> -1, type |-> TYPE_STRING,      data |-> 9],
    [ns |-> -1, name |-> 0, raw |-> -1, type |-> TYPE_INT_HEX,     data |-> 255],
    [ns |-> 3,  name |-> 0, raw |-> -1, type |-> TYPE_INT_BOOLEAN, data |-> 1],
    [ns |-> 3,  name |-> 1, raw |-> -1, type |-> TYPE_REFERENCE,   data |-> 2130837505] }

\* the pool read without the upper bound: an index beyond it gives undefined
StrNoUpperBound(index) ==
  IF index < 0 THEN JsNull
  ELSE IF index >= Len(strings) THEN JsUndefined
  ELSE JsString(strings[index + 1])

\* _str(index), lines 488-491 (this.strings is 0-based)
Str(index) ==
  IF index < 0 \/ index >= Len(strings) THEN JsNull
  ELSE JsString(strings[index + 1])

\* _complexToFloat(data) with its unit suffix, lines 506-524: the product
\* mantissa * factors[radix] is kept exact as the pair (mantissa, radix)
ComplexValue(data, units) ==
  LET mantissa == (data \div 256) % 16777216
      radix == (data \div 16) % 4
      unit == IF (data % 16) < Len(units) THEN units[(data % 16) + 1] ELSE ""
  IN IF radix = 0 THEN JsString(ToString10(mantissa) \o unit)
     ELSE [t |-> "complex", mantissa |-> mantissa, radix |-> radix, unit |-> unit]

\* _resolveValue(type, data), lines 493-517
ResolveValue(type, data) ==
  CASE type = TYPE_STRING      -> Str(data)
    [] type = TYPE_INT_DEC     -> JsNumber(data)
    [] type = TYPE_INT_HEX     -> JsString("0x" \o ToString16(data))
    [] type = TYPE_INT_BOOLEAN -> JsBoolean(data # 0)
    [] type = TYPE_REFERENCE   -> JsString("@0x" \o ToString16(data))
    [] type = TYPE_ATTRIBUTE   -> JsString("?0x" \o ToString16(data))
    [] type = TYPE_FLOAT       -> [t |-> "float32", bits |-> data]
    [] type = TYPE_DIMENSION   ->
         ComplexValue(data, <<"px", "dp", "sp", "pt", "in", "mm">>)
    [] type = TYPE_FRACTION    -> ComplexValue(data, <<"%", "%p">>)
    [] type = TYPE_NULL        -> JsNull
    [] OTHER                   -> JsNumber(data)

\* the members every object literal inherits from Object.prototype, by what
\* a template literal turns them into
ObjectPrototype ==
  [ constructor |-> "function Object() { [native code] }",
    toString |-> "function toString() { [native code] }",
    valueOf |-> "function valueOf() { [native code] }",
    hasOwnProperty |-> "function hasOwnProperty() { [native code] }" ]

\* this.namespaces[key], line 478; this.namespaces is an object literal
\* (line 266), so a key it does not hold is looked up in Object.prototype
NamespacesGet(key) ==
  IF key \in DOMAIN namespaces THEN JsString(namespaces[key])
  ELSE IF key \in DOMAIN ObjectPrototype THEN JsString(ObjectPrototype[key])
  ELSE JsUndefined

\* one attribute of _parseStartElement, lines 469-480: its raw record and
\* the key it is stored under
AttrValue(a) == IF a.raw >= 0 THEN Str(a.raw) ELSE ResolveValue(a.type, a.data)
AttrNs(a) == IF a.ns >= 0 THEN Str(a.ns) ELSE JsNull
AttrPrefix(a) ==
  IF Truthy(AttrNs(a)) THEN NamespacesGet(AttrNs(a).s) ELSE JsNull
AttrKey(a) ==
  IF Truthy(AttrPrefix(a))
  THEN AttrPrefix(a).s \o ":" \o ToStr(Str(a.name))
  ELSE ToStr(Str(a.name))
RawAttr(a) ==
  [namespace |-> AttrNs(a), name |-> Str(a.name), value |-> AttrValue(a),
   type |-> a.type, data |-> a.data]

\* element.attributes after the attribute loop: a later attribute with the
\* same key replaces the earlier one
RECURSIVE Attributes(_)
Attributes(attrs) ==
  IF attrs = <<>> THEN <<>>
  ELSE LET last == attrs[Len(attrs)]
       IN (AttrKey(last) :> AttrValue(last))
            @@ Attributes(SubSeq(attrs, 1, Len(attrs) - 1))

\* the element built by _parseStartElement, lines 449-483
Element(name, attrs, parent) ==
  [tag |-> Str(name),
   attributes |-> Attributes(attrs),
   rawAttrs |-> [i \in 1 .. Len(attrs) |-> RawAttr(attrs[i])],
   parent |-> parent]

\* root.children[root.children.length - 1] || root
LastChildOfRoot ==
  IF \E k \in 1 .. Len(axNodes) : axNodes[k].parent = 0
  THEN CHOOSE k \in 1 .. Len(axNodes) :
         /\ axNodes[k].parent = 0
         /\ \A j \in (k + 1) .. Len(axNodes) : axNodes[j].parent # 0
  ELSE 0

\* root.children[0] || root, line 345: the first element appended to root
FirstChildOfRoot ==
  IF \E k \in 1 .. Len(axNodes) : axNodes[k].parent = 0
  THEN CHOOSE k \in 1 .. Len(axNodes) :
         /\ axNodes[k].parent = 0
         /\ \A j \in 1 .. (k - 1) : axNodes[j].parent # 0
  ELSE 0

AXInit ==
  /\ axStatus = "idle"
  /\ axLen = 0
  /\ axType = -1
  /\ axFileSize = 0
  /\ offset = 0
  /\ strings = <<>>
  /\ resourceIds = 0
  /\ namespaces = <<>>
  /\ axNodes = <<>>
  /\ stack = <<0>>
  /\ axResult = JsUndefined

\* everything outside the AXML machine
AXOthers == UNCHANGED <<bpVars, pxVars, uiVars, mbVars, pngVars, projVars,
    pdVars,
    ixVars>>

AXThrow(msg) ==
  /\ axStatus' = "thrown"
  /\ axResult' = JsError(msg)

\* parse(), lines 295-305: the three header reads, then the type check
AXParse ==
  /\ axStatus = "idle"
  /\ \E len \in BufLens, type \in {RES_XML_TYPE, 10} :
     \E fileSize \in FileSizes(len) :
       /\ axLen' = len
       /\ axType' = IF len >= 2 THEN type ELSE -1
       /\ IF len < 8
          THEN /\ AXThrow("RangeError")
               /\ UNCHANGED <<axFileSize, offset>>
          ELSE IF type # RES_XML_TYPE
          THEN /\ AXThrow("Not a valid Android Binary XML file")
               /\ axFileSize' = fileSize
               /\ offset' = 8
          ELSE /\ axStatus' = "loop"
               /\ axFileSize' = fileSize
               /\ offset' = 8
               /\ UNCHANGED axResult
  /\ UNCHANGED <<strings, resourceIds, namespaces, axNodes, stack>>
  /\ AXOthers

\* the loop condition of line 307
InLoop == axStatus = "loop" /\ offset < axFileSize /\ offset < axLen
\* the chunk header (type, headerSize, chunkSize: 8 bytes) lies in the buffer
HeaderReadable == offset + 8 <= axLen
\* the break condition of line 313 without its first half, negated
ChunkEndInBuffer(chunkSize) == ~(offset + chunkSize > axLen)
\* the negation of the break condition of line 313, with chunkStart = offset
ChunkInBuffer(chunkSize) == ~(chunkSize < 8 \/ offset + chunkSize > axLen)

\* the loop ends (line 307) and parse returns (line 345)
AXReturn ==
  /\ axStatus = "loop"
  /\ ~(offset < axFileSize /\ offset < axLen)
  /\ axStatus' = "returned"
  /\ axResult' = [t |-> "node", id |-> FirstChildOfRoot]
  /\ UNCHANGED <<axLen, axType, axFileSize, offset, strings, resourceIds,
                 namespaces, axNodes, stack>>
  /\ AXOthers

\* lines 309-311 when fewer than 8 bytes are left: a header read raises
AXHeaderTruncated ==
  /\ InLoop
  /\ ~HeaderReadable
  /\ AXThrow("RangeError")
  /\ UNCHANGED <<axLen, axType, axFileSize, offset, strings, resourceIds,
                 namespaces, axNodes, stack>>
  /\ AXOthers

\* line 313: break, and parse returns (line 345)
AXBreak ==
  /\ InLoop
  /\ HeaderReadable
  /\ \E chunkSize \in ChunkSizes :
       /\ ~ChunkInBuffer(chunkSize)
       /\ axStatus' = "returned"
       /\ axResult' = [t |-> "node", id |-> FirstChildOfRoot]
       /\ offset' = offset + 8
  /\ UNCHANGED <<axLen, axType, axFileSize, strings, resourceIds,
                 namespaces, axNodes, stack>>
  /\ AXOthers

\* RES_STRING_POOL_TYPE, _parseStringPool (350-372) and _readStringAt
\* (374-408): the header of 5 words, stringCount offsets, then each string
\* where its offset points; readable is whether all of them lie in the buffer
AXStringPool ==
  /\ InLoop
  /\ HeaderReadable
  /\ \E chunkSize \in ChunkSizes, pool \in StringPools, readable \in BOOLEAN :
       /\ ChunkInBuffer(chunkSize)
       /\ IF offset + 28 + 4 * Len(pool) > axLen \/ ~readable
          THEN /\ AXThrow("RangeError")
               /\ UNCHANGED <<offset, strings>>
          ELSE /\ strings' = pool
               /\ offset' = offset + chunkSize
               /\ UNCHANGED <<axStatus, axResult>>
  /\ UNCHANGED <<axLen, axType, axFileSize, resourceIds, namespaces, axNodes, stack>>
  /\ AXOthers

\* RES_XML_RESOURCE_MAP_TYPE, _parseResourceMap (410-416): the ids read lie
\* inside the chunk
AXResourceMap ==
  /\ InLoop
  /\ HeaderReadable
  /\ \E chunkSize \in ChunkSizes :
       /\ ChunkInBuffer(chunkSize)
       /\ resourceIds' = (chunkSize - 8) \div 4
       /\ offset' = offset + chunkSize
  /\ UNCHANGED <<axStatus, axLen, axType, axFileSize, strings, namespaces,
                 axNodes, stack, axResult>>
  /\ AXOthers

\* RES_XML_START_NAMESPACE_TYPE, _parseStartNamespace (418-426): 4 words
AXStartNamespace ==
  /\ InLoop
  /\ HeaderReadable
  /\ \E chunkSize \in ChunkSizes, prefix \in PoolIdx, uri \in PoolIdx :
       /\ ChunkInBuffer(chunkSize)
       /\ IF offset + 24 > axLen
          THEN /\ AXThrow("RangeError")
               /\ UNCHANGED <<offset, namespaces>>
          ELSE /\ namespaces' =
                    IF Truthy(Str(prefix)) /\ Truthy(Str(uri))
                    THEN (Str(uri).s :> Str(prefix).s) @@ namespaces
                    ELSE namespaces
               /\ offset' = offset + chunkSize
               /\ UNCHANGED <<axStatus, axResult>>
  /\ UNCHANGED <<axLen, axType, axFileSize, strings, resourceIds, axNodes, stack>>
  /\ AXOthers

\* RES_XML_END_NAMESPACE_TYPE (_skipNodeBody reads nothing),
\* RES_XML_CDATA_TYPE, and every type the switch has no case for
AXSkip ==
  /\ InLoop
  /\ HeaderReadable
  /\ \E chunkSize \in ChunkSizes :
       /\ ChunkInBuffer(chunkSize)
       /\ offset' = offset + chunkSize
  /\ UNCHANGED <<axStatus, axLen, axType, axFileSize, strings, resourceIds,
                 namespaces, axNodes, stack, axResult>>
  /\ AXOthers

\* RES_XML_START_ELEMENT_TYPE, lines 328-333 and _parseStartElement
\* (433-484): 28 bytes of element header, then attrCount attributes of 20
\* bytes read at attrOffset, attrOffset advancing by (attrSize || 20)
AXStartElement ==
  /\ InLoop
  /\ HeaderReadable
  /\ Len(axNodes) < MaxNodes
  /\ \E chunkSize \in ChunkSizes, name \in PoolIdx, attrStart \in {20},
        attrSize \in {0, 20}, attrCount \in 0 .. MaxAttrs :
       \E attrs \in [1 .. attrCount -> AttrInputs] :
         /\ ChunkInBuffer(chunkSize)
         /\ LET step == IF attrSize = 0 THEN 20 ELSE attrSize
                attrOffset(i) == offset + 16 + attrStart + (i - 1) * step
            IN IF \/ offset + 36 > axLen
                  \/ \E i \in 1 .. attrCount : attrOffset(i) + 20 > axLen
               THEN /\ AXThrow("RangeError")
                    /\ UNCHANGED <<offset, axNodes, stack>>
               ELSE /\ axNodes' = Append(axNodes,
                                   Element(name, attrs, stack[Len(stack)]))
                    /\ stack' = Append(stack, Len(axNodes) + 1)
                    /\ offset' = offset + chunkSize
                    /\ UNCHANGED <<axStatus, axResult>>
  /\ UNCHANGED <<axLen, axType, axFileSize, strings, resourceIds, namespaces>>
  /\ AXOthers

\* RES_XML_END_ELEMENT_TYPE, lines 334-337
AXEndElement ==
  /\ InLoop
  /\ HeaderReadable
  /\ \E chunkSize \in ChunkSizes :
       /\ ChunkInBuffer(chunkSize)
       /\ stack' = IF Len(stack) > 1 THEN SubSeq(stack, 1, Len(stack) - 1)
                   ELSE stack
       /\ offset' = offset + chunkSize
  /\ UNCHANGED <<axStatus, axLen, axType, axFileSize, strings, resourceIds,
                 namespaces, axNodes, axResult>>
  /\ AXOthers

AXNext ==
  \/ AXParse \/ AXReturn \/ AXHeaderTruncated \/ AXBreak \/ AXStringPool
  \/ AXResourceMap \/ AXStartNamespace \/ AXSkip \/ AXStartElement
  \/ AXEndElement

(***************************************************************************)
(* C3: AXMLParser.parse raises an error if and only if the opening 16-bit *)
(* type is not 0x0003; a buffer that begins with 0x0003 never makes it    *)
(* throw, whatever follows.                                                *)
(***************************************************************************)
C3_ThrowsIffNotAxml ==
  axStatus # "idle" => ((axStatus = "thrown") <=> (axType # RES_XML_TYPE))

(***************************************************************************)
(* C16: a string-pool index that is negative or beyond the loaded pool    *)
(* resolves to null and raises nothing, whether it stands for a name, a   *)
(* namespace, a raw value (rawValueIdx >= 0) or the data of a TYPE_STRING *)
(* value; the attribute is recorded, with the value null.                 *)
(***************************************************************************)
C16_StringIndexInRangeOrNull ==
  /\ \A i \in PoolIdx \cup {-1} :
       IF i < 0 \/ i >= Len(strings) THEN Str(i) = JsNull
       ELSE Str(i).t = "string"
  /\ \A a \in AttrInputs :
       /\ a.raw >= Len(strings) => AttrValue(a) = JsNull
       /\ (a.raw < 0 /\ a.type = TYPE_STRING /\ a.data >= Len(strings)) =>
            AttrValue(a) = JsNull
       /\ a.ns >= Len(strings) => AttrNs(a) = JsNull
       /\ a.name >= Len(strings) => RawAttr(a).name = JsNull
  /\ \A k \in 1 .. Len(axNodes) :
       /\ axNodes[k].tag \in {JsNull} \cup {JsString(s) : s \in UNION {{p[i] : i \in 1 .. Len(p)} : p \in StringPools}}
       /\ \A i \in 1 .. Len(axNodes[k].rawAttrs) :
            LET r == axNodes[k].rawAttrs[i]
            IN (r.type = TYPE_STRING /\ r.data = 9) =>
                 /\ r.value = JsNull
                 /\ \E key \in DOMAIN axNodes[k].attributes :
                      axNodes[k].attributes[key] = JsNull

\* an element was built from an attribute whose name, namespace and
\* TYPE_STRING data lie beyond the pool, and with a pool of two strings
\* loaded an element was built whose name lies beyond it
C16_Witness ==
  /\ Len(strings) = 2
  /\ Len(axNodes) = 2
  /\ axNodes[1].rawAttrs =
       <<[namespace |-> JsNull, name |-> JsNull, value |-> JsNull,
          type |-> TYPE_STRING, data |-> 9]>>
  /\ axNodes[1].attributes = ("null" :> JsNull)
  /\ axNodes[2].tag = JsNull

\* the elements appended under the document root, in the order of appending
TopLevel == {k \in 1 .. Len(axNodes) : axNodes[k].parent = 0}

\* the stack holds the document root (0) at its bottom, and above it each
\* element lies on the element it was appended to
StackOnRoot ==
  /\ Len(stack) >= 1
  /\ stack[1] = 0
  /\ \A i \in 2 .. Len(stack) :
       /\ stack[i] \in 1 .. Len(axNodes)
       /\ axNodes[stack[i]].parent = stack[i - 1]

\* what one step of the chunk loop does to the stack
StackStep ==
  \/ /\ stack' = stack
     /\ axNodes' = axNodes
  \/ /\ Len(stack) > 1
     /\ stack' = SubSeq(stack, 1, Len(stack) - 1)
     /\ axNodes' = axNodes
  \/ /\ Len(axNodes') = Len(axNodes) + 1
     /\ SubSeq(axNodes', 1, Len(axNodes)) = axNodes
     /\ axNodes'[Len(axNodes')].parent = stack[Len(stack)]
     /\ stack' = Append(stack, Len(axNodes'))

(***************************************************************************)
(* C20: while parse iterates chunks the element stack is never empty and  *)
(* has the document root at its bottom; a step of the loop leaves the     *)
(* stack alone, or pops it when its depth is greater than 1, or appends a *)
(* new element as the last child of the stack top and pushes it; and      *)
(* parse returns the first element appended under the document root (the  *)
(* root itself when there is none).                                       *)
(***************************************************************************)
C20_StackDiscipline ==
  /\ [](/\ StackOnRoot
        /\ axStatus = "returned" =>
             /\ axResult.t = "node"
             /\ IF TopLevel = {} THEN axResult.id = 0
                ELSE /\ axResult.id \in TopLevel
                     /\ \A k \in TopLevel : axResult.id <= k)
  /\ [][StackStep]_vars

\* parse has returned from a file with two top-level elements, the second
\* START_ELEMENT having come after the END_ELEMENT of the first
C20_Witness ==
  /\ axStatus = "returned"
  /\ Len(axNodes) = 2
  /\ TopLevel = {1, 2}
  /\ axResult = [t |-> "node", id |-> 1]
  /\ stack = <<0>>

(***************************************************************************)
(* C21: AXMLParser.parse terminates on every input: a call that is begun  *)
(* ends, returning or throwing, and every iteration of the chunk loop     *)
(* that goes on to a next one moves the cursor forward by the chunk size, *)
(* at least 8 bytes, and not beyond the end of the buffer.                *)
(***************************************************************************)
C21_ParseTerminates ==
  /\ <>(axStatus \in {"returned", "thrown"})
  /\ [][(axStatus = "loop" /\ axStatus' = "loop") =>
          /\ offset' >= offset + 8
          /\ offset' <= axLen]_vars

\* parse has returned after the cursor went through several chunks up to
\* the end of a buffer of 56 bytes or more
C21_Witness ==
  /\ axStatus = "returned"
  /\ axLen >= 56
  /\ offset >= axLen
  /\ Len(axNodes) = 2
  /\ Len(strings) > 0

\* the key the attribute should have by the namespaces recorded so far
ExpectedKey(a) ==
  LET local == ToStr(Str(a.name))
      uri == AttrNs(a)
  IN IF a.ns >= 0 /\ uri.t = "string" /\ uri.s \in DOMAIN namespaces
     THEN namespaces[uri.s] \o ":" \o local
     ELSE local

(***************************************************************************)
(* C22: at every point of a parse, the key _parseStartElement stores an   *)
(* attribute under is "<prefix>:<localName>" exactly when the attribute's *)
(* namespaceIdx is >= 0 and a START_NAMESPACE chunk has recorded a prefix *)
(* for the URI it names, and the local name alone in every other case;    *)
(* the raw record keeps the URI.                                          *)
(***************************************************************************)
C22_KeyHasPrefixIffRecorded ==
  \A a \in AttrInputs :
    /\ AttrKey(a) = ExpectedKey(a)
    /\ RawAttr(a).namespace = AttrNs(a)

(***************************************************************************)
(* ProtoDecoder and ProtoXMLParser                                         *)
(*                                                                         *)
(* The buffer is a sequence of bytes; position p of the buffer is         *)
(* buf[p + 1].  A read of bytes[p] past the end gives undefined, which    *)
(* the bit operations of the decoder treat as 0; a DataView or typed-     *)
(* array access past the end raises RangeError.  A thrown error is        *)
(* carried as the value JsError(..) out of every operator it crosses.     *)
(***************************************************************************)
IsThrown(v) == v.t = "error"

\* a _varint that stops reading once 28 bits are filled
RECURSIVE VarintFromShort(_, _, _, _, _)
VarintFromShort(buf, pos, end, r, s) ==
  IF pos >= end \/ s >= 28 THEN [v |-> r, pos |-> pos]
  ELSE LET b == IF pos < Len(buf) THEN buf[pos + 1] ELSE 0
           r2 == r + (b % 128) * (2 ^ s)
       IN IF b < 128 THEN [v |-> r2, pos |-> pos + 1]
          ELSE VarintFromShort(buf, pos + 1, end, r2, s + 7)

\* ProtoDecoder._varint, lines 102-111, from position pos of a decoder whose
\* range ends at end: the value and the position after it
RECURSIVE VarintFrom(_, _, _, _, _)
VarintFrom(buf, pos, end, r, s) ==
  IF pos >= end THEN [v |-> r, pos |-> pos]
  ELSE LET b == IF pos < Len(buf) THEN buf[pos + 1] ELSE 0
           r2 == IF s < 28 THEN r + (b % 128) * (2 ^ s) ELSE r
       IN IF b < 128 THEN [v |-> r2, pos |-> pos + 1]
          ELSE VarintFrom(buf, pos + 1, end, r2, s + 7)

Varint(buf, pos, end) == VarintFrom(buf, pos, end, 0, 0)

\* DataView.getUint32(pos, true)
Uint32LE(buf, pos) ==
  buf[pos + 1] + buf[pos + 2] * 256 + buf[pos + 3] * 65536 + buf[pos + 4] * 16777216

\* (fields[num] || (fields[num] = [])).push(entry), line 97
Push(fields, num, entry) ==
  IF num \in DOMAIN fields THEN [fields EXCEPT ![num] = Append(@, entry)]
  ELSE (num :> <<entry>>) @@ fields

\* ProtoDecoder.readFields, lines 74-100, from position pos
RECURSIVE ReadFieldsFrom(_, _, _, _)
ReadFieldsFrom(buf, pos, end, fields) ==
  IF pos >= end THEN [t |-> "fields", f |-> fields]
  ELSE LET tag == Varint(buf, pos, end)
           num == tag.v \div 8
           wt == tag.v % 8
       IN IF num = 0 THEN [t |-> "fields", f |-> fields]
          ELSE CASE wt = 0 ->
                 LET x == Varint(buf, tag.pos, end)
                 IN ReadFieldsFrom(buf, x.pos, end,
                                   Push(fields, num, [wt |-> 0, v |-> x.v]))
            [] wt = 1 ->
                 IF tag.pos + 8 > Len(buf) THEN JsError("RangeError")
                 ELSE ReadFieldsFrom(buf, tag.pos + 8, end,
                        Push(fields, num,
                             [wt |-> 1, lo |-> Uint32LE(buf, tag.pos),
                              hi |-> Uint32LE(buf, tag.pos + 4)]))
            [] wt = 2 ->
                 LET n == Varint(buf, tag.pos, end)
                 IN ReadFieldsFrom(buf, n.pos + n.v, end,
                        Push(fields, num, [wt |-> 2, off |-> n.pos, len |-> n.v]))
            [] wt = 5 ->
                 IF tag.pos + 4 > Len(buf) THEN JsError("RangeError")
                 ELSE ReadFieldsFrom(buf, tag.pos + 4, end,
                        Push(fields, num, [wt |-> 5, v |-> Uint32LE(buf, tag.pos)]))
            [] OTHER -> [t |-> "fields", f |-> fields]

\* new ProtoDecoder(buffer, start, len).readFields(), lines 65-71
ReadFields(buf, start, len) == ReadFieldsFrom(buf, start, start + len, <<>>)

\* the field index {} of an entry that is not length-delimited
NoFields == [t |-> "fields", f |-> <<>>]

\* ProtoXMLParser._sub, lines 142-145
Sub(buf, entry) ==
  IF entry.wt # 2 THEN NoFields ELSE ReadFields(buf, entry.off, entry.len)

\* TextDecoder().decode of bytes: the printable ASCII characters are
\* decoded to themselves; a grave accent and any other byte are shown as "?"
AsciiChars ==
  <<
  " ", "!", "\"", "#", "$", "%", "&", "'", "(", ")", "*", "+",
  ",", "-", ".", "/", "0", "1", "2", "3", "4", "5", "6", "7",
  "8", "9", ":", ";", "<", "=", ">", "?", "@", "A", "B", "C",
  "D", "E", "F", "G", "H", "I", "J", "K", "L", "M", "N", "O",
  "P", "Q", "R", "S", "T", "U", "V", "W", "X", "Y", "Z", "[",
  "\\", "]", "^", "_", "?", "a", "b", "c", "d", "e", "f", "g",
  "h", "i", "j", "k", "l", "m", "n", "o", "p", "q", "r", "s",
  "t", "u", "v", "w", "x", "y", "z", "{", "|", "}", "~"
  >>

RECURSIVE TextDecode(_)
TextDecode(bytes) ==
  IF bytes = <<>> THEN ""
  ELSE (IF bytes[1] >= 32 /\ bytes[1] <= 126 THEN AsciiChars[bytes[1] - 31] ELSE "?")
         \o TextDecode(Tail(bytes))

\* fields[num] && fields[num][0].wt === 2
HasLen(f, num) == num \in DOMAIN f /\ f[num][1].wt = 2

\* ProtoXMLParser._str, lines 148-154
PStr(buf, f, num) ==
  IF ~HasLen(f, num) THEN JsNull
  ELSE LET e == f[num][1]
       IN IF e.len = 0 THEN JsString("")
          ELSE IF e.off + e.len > Len(buf) THEN JsError("RangeError")
          ELSE JsString(TextDecode(SubSeq(buf, e.off + 1, e.off + e.len)))

\* id.toString(16) for the value of the first id entry of a Reference
EntryToString16(e) ==
  CASE e.wt = 2 -> "[object Object]"
    [] e.wt = 1 -> IF e.hi = 0 THEN ToString16(e.lo)
                   ELSE ToString16(e.hi) \o ToString16(e.lo)
    [] OTHER -> ToString16(e.v)

\* ProtoXMLParser._primitive, lines 238-254
Primitive(f) ==
  IF 6 \in DOMAIN f /\ f[6][1].wt = 0 THEN JsNumber(f[6][1].v)
  ELSE IF 7 \in DOMAIN f /\ f[7][1].wt = 0 THEN JsNumber(f[7][1].v)
  ELSE IF 8 \in DOMAIN f /\ f[8][1].wt = 0 THEN JsBoolean(f[8][1].v # 0)
  ELSE IF 3 \in DOMAIN f /\ f[3][1].wt = 5 THEN [t |-> "float32", bits |-> f[3][1].v]
  ELSE IF 1 \in DOMAIN f THEN JsNull
  ELSE JsUndefined

\* the value op gives for the fields of a nested message, or the error of
\* reading them
WithinSub(sub, op(_)) == IF IsThrown(sub) THEN sub ELSE op(sub.f)

Within(buf, entry, op(_)) == WithinSub(Sub(buf, entry), op)

\* ProtoXMLParser._item, lines 216-236
Item(buf, f) ==
  IF HasLen(f, 1)
  THEN LET ref(r) == JsString("@0x" \o (IF 1 \in DOMAIN r
                                         THEN EntryToString16(r[1][1]) ELSE "0"))
       IN Within(buf, f[1][1], ref)
  ELSE IF HasLen(f, 2) THEN LET s(r) == PStr(buf, r, 1) IN Within(buf, f[2][1], s)
  ELSE IF HasLen(f, 3) THEN LET s(r) == PStr(buf, r, 1) IN Within(buf, f[3][1], s)
  ELSE IF HasLen(f, 7) THEN Within(buf, f[7][1], Primitive)
  ELSE JsUndefined

\* the raw string of field 3 kept whenever there is one
RawOverTyped(raw, typed) == IF raw # JsNull THEN raw ELSE typed

\* lines 189-195: the raw string of field 3, replaced by the typed value of
\* field 6 unless that is undefined
TypedOverRaw(raw, typed) == IF typed # JsUndefined THEN typed ELSE raw

\* lines 192-193: the typed value of the compiled item of an attribute,
\* undefined when it has none
Typed(buf, af) ==
  LET item(r) == Item(buf, r)
  IN IF HasLen(af, 6) THEN Within(buf, af[6][1], item) ELSE JsUndefined

\* lines 189-200, from the three strings and the typed value of an attribute
\* under the namespaces ns: its key, its value and its raw record
AttributeOf(nsUri, name, raw, typed, ns) ==
  LET value == TypedOverRaw(raw, typed)
      prefix == IF Truthy(nsUri) /\ nsUri.s \in DOMAIN ns
                THEN JsString(ns[nsUri.s]) ELSE JsNull
      key == IF Truthy(prefix) THEN prefix.s \o ":" \o ToStr(name) ELSE ToStr(name)
  IN IF IsThrown(nsUri) THEN nsUri
     ELSE IF IsThrown(name) THEN name
     ELSE IF IsThrown(raw) THEN raw
     ELSE IF IsThrown(typed) THEN typed
     ELSE [t |-> "attr", key |-> key, value |-> value,
           raw |-> [namespace |-> nsUri, name |-> name, value |-> value]]

\* one attribute of _xmlElement, lines 187-200
Attribute(buf, af, ns) ==
  AttributeOf(PStr(buf, af, 1), PStr(buf, af, 2), PStr(buf, af, 3), Typed(buf, af), ns)

\* the namespace loop of _xmlElement, lines 168-176, from entry i on: the
\* namespaces after it, or the error thrown.  NamespaceDecl is the loop body
\* after _sub (171), NamespaceSet after the two _str (172-174).
RECURSIVE NamespaceLoop(_, _, _, _), NamespaceDecl(_, _, _, _, _),
          NamespaceSet(_, _, _, _, _, _)
NamespaceLoop(buf, entries, i, ns) ==
  IF i > Len(entries) THEN [t |-> "ns", ns |-> ns]
  ELSE IF entries[i].wt # 2 THEN NamespaceLoop(buf, entries, i + 1, ns)
  ELSE NamespaceDecl(buf, entries, i, ns, Sub(buf, entries[i]))

NamespaceDecl(buf, entries, i, ns, nsf) ==
  IF IsThrown(nsf) THEN nsf
  ELSE NamespaceSet(buf, entries, i, ns, PStr(buf, nsf.f, 1), PStr(buf, nsf.f, 2))

NamespaceSet(buf, entries, i, ns, prefix, uri) ==
  IF IsThrown(prefix) THEN prefix
  ELSE IF IsThrown(uri) THEN uri
  ELSE NamespaceLoop(buf, entries, i + 1,
         IF Truthy(prefix) /\ Truthy(uri) THEN (uri.s :> prefix.s) @@ ns ELSE ns)

\* the attribute loop of _xmlElement, lines 182-202, from entry i on.
\* AttributeFields is the loop body after _sub (185), AttributeSet after the
\* attribute is decoded (199-200).
RECURSIVE AttributeLoop(_, _, _, _, _, _), AttributeFields(_, _, _, _, _, _, _),
          AttributeSet(_, _, _, _, _, _, _)
AttributeLoop(buf, entries, i, ns, attributes, rawAttrs) ==
  IF i > Len(entries)
  THEN [t |-> "attrs", attributes |-> attributes, rawAttrs |-> rawAttrs]
  ELSE IF entries[i].wt # 2
  THEN AttributeLoop(buf, entries, i + 1, ns, attributes, rawAttrs)
  ELSE AttributeFields(buf, entries, i, ns, attributes, rawAttrs, Sub(buf, entries[i]))

AttributeFields(buf, entries, i, ns, attributes, rawAttrs, af) ==
  IF IsThrown(af) THEN af
  ELSE AttributeSet(buf, entries, i, ns, attributes, rawAttrs, Attribute(buf, af.f, ns))

AttributeSet(buf, entries, i, ns, attributes, rawAttrs, a) ==
  IF IsThrown(a) THEN a
  ELSE AttributeLoop(buf, entries, i + 1, ns,
         (a.key :> a.value) @@ attributes, Append(rawAttrs, a.raw))

\* _xmlNode (158-164), _xmlElement (166-214) and its child loop (205-211):
\* each gives the value built and this.namespaces after it.  _xmlElement is
\* followed through its namespace loop (XmlElement), its tag (ElementTag,
\* 178), its attribute loop (ElementAttributes), its child loop
\* (ElementChildren) and its return (ElementOf, 213); the child loop through
\* _sub (ChildNode, 208) and the push (ChildPush, 209).
RECURSIVE XmlNode(_, _, _), XmlNodeSub(_, _, _), XmlElement(_, _, _),
          ElementTag(_, _, _, _), ElementAttributes(_, _, _, _),
          ElementChildren(_, _, _, _, _), ElementOf(_, _, _),
          ChildLoop(_, _, _, _, _), ChildNode(_, _, _, _, _, _),
          ChildPush(_, _, _, _, _)
XmlNode(buf, f, ns) ==
  IF HasLen(f, 1) THEN XmlNodeSub(buf, ns, Sub(buf, f[1][1]))
  ELSE [val |-> JsNull, ns |-> ns]

XmlNodeSub(buf, ns, sub) ==
  IF IsThrown(sub) THEN [val |-> sub, ns |-> ns] ELSE XmlElement(buf, sub.f, ns)

XmlElement(buf, f, ns) ==
  ElementTag(buf, f, ns,
             IF 1 \in DOMAIN f THEN NamespaceLoop(buf, f[1], 1, ns)
             ELSE [t |-> "ns", ns |-> ns])

ElementTag(buf, f, ns, nsl) ==
  IF IsThrown(nsl) THEN [val |-> nsl, ns |-> ns]
  ELSE ElementAttributes(buf, f, nsl.ns, PStr(buf, f, 3))

ElementAttributes(buf, f, ns, name) ==
  IF IsThrown(name) THEN [val |-> name, ns |-> ns]
  ELSE ElementChildren(buf, f, ns, IF Truthy(name) THEN name.s ELSE "",
         IF 4 \in DOMAIN f THEN AttributeLoop(buf, f[4], 1, ns, <<>>, <<>>)
         ELSE [t |-> "attrs", attributes |-> <<>>, rawAttrs |-> <<>>])

ElementChildren(buf, f, ns, tag, al) ==
  IF IsThrown(al) THEN [val |-> al, ns |-> ns]
  ELSE ElementOf(tag, al,
         IF 5 \in DOMAIN f THEN ChildLoop(buf, f[5], 1, ns, <<>>)
         ELSE [val |-> <<>>, ns |-> ns, thrown |-> FALSE])

ElementOf(tag, al, cl) ==
  IF cl.thrown THEN [val |-> cl.val, ns |-> cl.ns]
  ELSE [val |-> [t |-> "element", tag |-> tag, attributes |-> al.attributes,
                 children |-> cl.val, rawAttrs |-> al.rawAttrs],
        ns |-> cl.ns]

ChildLoop(buf, entries, i, ns, children) ==
  IF i > Len(entries) THEN [val |-> children, ns |-> ns, thrown |-> FALSE]
  ELSE IF entries[i].wt # 2 THEN ChildLoop(buf, entries, i + 1, ns, children)
  ELSE ChildNode(buf, entries, i, ns, children, Sub(buf, entries[i]))

ChildNode(buf, entries, i, ns, children, sub) ==
  IF IsThrown(sub) THEN [val |-> sub, ns |-> ns, thrown |-> TRUE]
  ELSE ChildPush(buf, entries, i, children, XmlNode(buf, sub.f, ns))

ChildPush(buf, entries, i, children, child) ==
  IF IsThrown(child.val) THEN [val |-> child.val, ns |-> child.ns, thrown |-> TRUE]
  ELSE ChildLoop(buf, entries, i + 1, child.ns,
         IF child.val = JsNull THEN children ELSE Append(children, child.val))

\* _xmlNode(fields) of parse(), line 138, on a parser whose this.namespaces
\* is ns
ParseFields(buf, fields, ns) ==
  IF IsThrown(fields) THEN [val |-> fields, ns |-> ns]
  ELSE XmlNode(buf, fields.f, ns)

\* new ProtoXMLParser(buf).parse(), lines 130-139: parse on a parser that
\* has parsed nothing
ProtoXMLParse(buf) == ParseFields(buf, ReadFields(buf, 0, Len(buf)), <<>>)

(***************************************************************************)
(* The proto manifests the decoder is run on: one <manifest> element with *)
(* one attribute and up to MaxChildren <application> children, written    *)
(* out in the protobuf wire format.                                       *)
(***************************************************************************)

\* the UTF-8 bytes of the strings the manifests hold
Utf8 ==
  [ uri |->
      <<104, 116, 116, 112, 58, 47, 47, 115, 99, 104, 101, 109, 97, 115, 46, 97, 110, 100, 114, 111, 105, 100, 46, 99, 111, 109, 47, 97, 112, 107, 47, 114, 101, 115, 47, 97, 110, 100, 114, 111, 105, 100>>,
    prefix |->
      <<97, 110, 100, 114, 111, 105, 100>>,
    manifest |->
      <<109, 97, 110, 105, 102, 101, 115, 116>>,
    application |->
      <<97, 112, 112, 108, 105, 99, 97, 116, 105, 111, 110>>,
    versionCode |->
      <<118, 101, 114, 115, 105, 111, 110, 67, 111, 100, 101>>,
    raw |->
      <<114, 97, 119>>,
    typed |->
      <<116, 121, 112, 101, 100>> ]

\* the typed items: the kind of the compiled item and the number it holds
Items ==
  [kind : {"none", "wrongWire", "refNoId", "str", "strNoValue", "rawstr",
           "null", "primUnknown", "itemUnknown"}, n : {0}]
    \cup [kind : {"ref"}, n : {16908309, 2130771969}]
    \cup [kind : {"intDec", "intHex"}, n : {42, 300}]
    \cup [kind : {"boolean"}, n : {0, 1}]
    \cup [kind : {"float"}, n : {1065353216}]

Docs ==
  [nsDecl : BOOLEAN, attrNs : BOOLEAN, raw : {"none", "empty", "text"},
   item : Items, children : 0 .. MaxChildren]

RECURSIVE EncVarint(_)
EncVarint(n) ==
  IF n < 128 THEN <<n>> ELSE <<(n % 128) + 128>> \o EncVarint(n \div 128)

EncVar(num, n) == EncVarint(num * 8) \o EncVarint(n)

EncLen(num, payload) == EncVarint(num * 8 + 2) \o EncVarint(Len(payload)) \o payload

EncFixed32(num, n) ==
  EncVarint(num * 8 + 5)
    \o <<n % 256, (n \div 256) % 256, (n \div 65536) % 256, n \div 16777216>>

\* the Item message of a typed item
EncItem(item) ==
  CASE item.kind = "ref" -> EncLen(1, EncVar(1, item.n))
    [] item.kind = "refNoId" -> EncLen(1, <<>>)
    [] item.kind = "str" -> EncLen(2, EncLen(1, Utf8.typed))
    [] item.kind = "strNoValue" -> EncLen(2, <<>>)
    [] item.kind = "rawstr" -> EncLen(3, EncLen(1, Utf8.typed))
    [] item.kind = "intDec" -> EncLen(7, EncVar(6, item.n))
    [] item.kind = "intHex" -> EncLen(7, EncVar(7, item.n))
    [] item.kind = "boolean" -> EncLen(7, EncVar(8, item.n))
    [] item.kind = "float" -> EncLen(7, EncFixed32(3, item.n))
    [] item.kind = "null" -> EncLen(7, EncLen(1, <<>>))
    [] item.kind = "primUnknown" -> EncLen(7, EncVar(9, 1))
    [] OTHER -> EncLen(4, <<>>)

EncAttribute(d) ==
  (IF d.attrNs THEN EncLen(1, Utf8.uri) ELSE <<>>)
    \o EncLen(2, Utf8.versionCode)
    \o (CASE d.raw = "none" -> <<>>
          [] d.raw = "empty" -> EncLen(3, <<>>)
          [] OTHER -> EncLen(3, Utf8.raw))
    \o (CASE d.item.kind = "none" -> <<>>
          [] d.item.kind = "wrongWire" -> EncVar(6, 5)
          [] OTHER -> EncLen(6, EncItem(d.item)))

RECURSIVE EncChildren(_)
EncChildren(k) ==
  IF k = 0 THEN <<>>
  ELSE EncLen(5, EncLen(1, EncLen(3, Utf8.application))) \o EncChildren(k - 1)

EncDoc(d) ==
  EncLen(1,
    (IF d.nsDecl THEN EncLen(1, EncLen(1, Utf8.prefix) \o EncLen(2, Utf8.uri))
     ELSE <<>>)
      \o EncLen(3, Utf8.manifest)
      \o EncLen(4, EncAttribute(d))
      \o EncChildren(d.children))

NoDoc == [nsDecl |-> FALSE, attrNs |-> FALSE, raw |-> "none",
          item |-> [kind |-> "none", n |-> 0], children |-> 0]

(***************************************************************************)
(* The proto machine: new ProtoXMLParser(buffer), then parse().           *)
(***************************************************************************)
PXInit ==
  /\ pxStatus = "idle"
  /\ pxDoc = NoDoc
  /\ pxBuf = <<>>
  /\ pxNamespaces = <<>>
  /\ pxResult = JsUndefined
  /\ pxDropped = <<>>

PXOthers == UNCHANGED <<bpVars, axVars, uiVars, mbVars, pngVars, projVars,
    pdVars,
    ixVars>>

\* a constructor that takes over the map of the instance used before
ProtoXMLParserReused(buffer) == [buf |-> buffer, namespaces |-> pxNamespaces]

\* the fields of new ProtoXMLParser(buffer), lines 130-133
ProtoXMLParserNew(buffer) == [buf |-> buffer, namespaces |-> <<>>]

\* const parser = new ProtoXMLParser(buffer)
PXConstruct ==
  /\ pxStatus = "idle"
  /\ \E d \in Docs :
     \E parser \in {ProtoXMLParserNew(EncDoc(d))} :
       /\ pxDoc' = d
       /\ pxBuf' = parser.buf
       /\ pxNamespaces' = parser.namespaces
  /\ pxStatus' = "constructed"
  /\ UNCHANGED <<pxResult, pxDropped>>
  /\ PXOthers

\* parse(), lines 136-139, with everything it calls
PXParse ==
  /\ pxStatus = "constructed"
  /\ \E r \in {ParseFields(pxBuf, ReadFields(pxBuf, 0, Len(pxBuf)), pxNamespaces)} :
       /\ pxResult' = r.val
       /\ pxNamespaces' = r.ns
       /\ pxStatus' = IF IsThrown(r.val) THEN "thrown" ELSE "returned"
  /\ UNCHANGED <<pxDoc, pxBuf, pxDropped>>
  /\ PXOthers

PXNext == PXConstruct \/ PXParse

\* what the manifest written out for pxDoc says about its attribute
DocKey == IF pxDoc.nsDecl /\ pxDoc.attrNs THEN "android:versionCode" ELSE "versionCode"

DocRaw ==
  CASE pxDoc.raw = "none" -> JsNull
    [] pxDoc.raw = "empty" -> JsString("")
    [] OTHER -> JsString("raw")

\* the value _item gives for the compiled item of pxDoc read on its own
DocTyped ==
  IF pxDoc.item.kind \in {"none", "wrongWire"} THEN JsUndefined
  ELSE LET bytes == EncItem(pxDoc.item)
       IN Item(bytes, ReadFields(bytes, 0, Len(bytes)).f)

\* the number a varint written for n is read as: line 106 keeps the bits
\* below bit 28
Low28(n) == n % (2 ^ 28)

\* the value parse() gave the attribute
ParsedValue == pxResult.attributes[DocKey]

(***************************************************************************)
(* C9: in the proto walker an attribute whose compiled item (field 6)     *)
(* decodes to a typed value has that typed value, whatever its raw string *)
(* (field 3) is; an attribute without a compiled item, or with one that   *)
(* decodes to nothing, has its raw string if it has one and null if not.  *)
(***************************************************************************)
C9_TypedValueOverridesRaw ==
  pxStatus = "returned" =>
    /\ pxResult.t = "element"
    /\ DOMAIN pxResult.attributes = {DocKey}
    /\ DocTyped # JsUndefined => ParsedValue = DocTyped
    /\ DocTyped = JsUndefined => ParsedValue = DocRaw
    /\ pxDoc.item.kind \in {"none", "wrongWire", "primUnknown", "itemUnknown"}
         => ParsedValue = DocRaw
    /\ pxDoc.item.kind \in {"intDec", "boolean", "float", "ref", "str"}
         => ParsedValue # DocRaw
    /\ pxDoc.item.kind = "null" => ParsedValue = JsNull

\* an attribute with both the raw string "raw" and the typed integer 42
C9_Witness ==
  /\ pxStatus = "returned"
  /\ pxDoc.raw = "text"
  /\ pxDoc.item = [kind |-> "intDec", n |-> 42]
  /\ ParsedValue = JsNumber(42)

(***************************************************************************)
(* C10: a compiled item decodes by its kind: a Reference to "@0x" and the *)
(* lower-case hex of its id, a String or RawString to its text, a         *)
(* Primitive to a boolean, a number for int-decimal, a hex string for     *)
(* int-hexadecimal, a float, or null.  The numbers are the varints as the *)
(* decoder reads them, that is their low 28 bits.                         *)
(***************************************************************************)
C10_CompiledItemDecoding ==
  pxStatus = "returned" =>
    LET item == pxDoc.item
    IN CASE item.kind = "ref" -> ParsedValue = JsString("@0x" \o ToString16(Low28(item.n)))
         [] item.kind \in {"str", "rawstr"} -> ParsedValue = JsString("typed")
         [] item.kind = "boolean" -> ParsedValue = JsBoolean(item.n # 0)
         [] item.kind = "intDec" -> ParsedValue = JsNumber(Low28(item.n))
         [] item.kind = "intHex" -> ParsedValue.t = "string"
         [] item.kind = "float" -> ParsedValue = [t |-> "float32", bits |-> item.n]
         [] item.kind = "null" -> ParsedValue = JsNull
         [] OTHER -> TRUE

(***************************************************************************)
(* C18: an attribute with a typed value has the same value in the tree of *)
(* the proto walker as in the tree of the AXML decoder: the value         *)
(* _resolveValue gives for the type and the number the item holds, for a  *)
(* reference, a decimal integer, a hexadecimal integer and a boolean.     *)
(***************************************************************************)
C18_SameTypedValues ==
  pxStatus = "returned" =>
    LET item == pxDoc.item
    IN CASE item.kind = "ref" -> ParsedValue = ResolveValue(TYPE_REFERENCE, item.n)
         [] item.kind = "intDec" -> ParsedValue = ResolveValue(TYPE_INT_DEC, item.n)
         [] item.kind = "intHex" -> ParsedValue = ResolveValue(TYPE_INT_HEX, item.n)
         [] item.kind = "boolean" -> ParsedValue = ResolveValue(TYPE_INT_BOOLEAN, item.n)
         [] OTHER -> TRUE

(***************************************************************************)
(* ProtoDecoder on its own: new ProtoDecoder(buffer, start, len) and one  *)
(* call on it.  The buffers are varints written out for a value, in the   *)
(* shortest form or with empty groups added at the top, and all short     *)
(* sequences of the bytes that matter to readFields.                      *)
(***************************************************************************)

\* the varint of v with pad empty groups added above its last group
EncPadded(v, pad) ==
  LET enc == EncVarint(v)
  IN IF pad = 0 THEN enc
     ELSE SubSeq(enc, 1, Len(enc) - 1) \o <<enc[Len(enc)] + 128>>
            \o [i \in 1 .. (pad - 1) |-> 128] \o <<0>>

VarintValues ==
  {0, 1, 127, 128, 300, 16383, 16384, 2 ^ 28 - 1, 2 ^ 28, 2 ^ 28 + 5,
   2130771969, 2147483647}

\* tags and values: field 1 with wire types 0, 1, 2, 3 and 5, field 10, the
\* zero tag, and a continuation byte
WireBytes == {0, 1, 8, 9, 10, 11, 13, 80, 128}

\* XmlNode messages that end too early: an element whose name is said to be
\* 5 bytes long at the end of the buffer, and an element whose attribute
\* holds a float primitive (fixed32) of which one byte is there
TruncatedDocs ==
  { <<10, 2, 26, 5>>,
    <<10, 8, 34, 6, 50, 4, 58, 2, 29, 1>> }

\* a varint source: the value, the groups added, what precedes and follows
\* the varint in the buffer, and how many of its bytes the range leaves out;
\* a bytes source: the bytes, and start and len as the constructor gets
\* them (-1: not given)
PDSources ==
       [kind : {"varint"}, v : VarintValues, pad : {0, 1, MaxPad},
        before : {<<>>, <<255>>}, after : {<<>>, <<1>>, <<128, 1>>}, cut : {0, 1}]
  \cup [kind : {"bytes"},
        bytes : UNION {[1 .. n -> WireBytes] : n \in 0 .. MaxBytes}
                  \cup TruncatedDocs \cup {EncDoc(d) : d \in Docs},
        start : {-1, 1}, len : {-1, 2}]

SourceBytes(src) ==
  IF src.kind = "varint" THEN src.before \o EncPadded(src.v, src.pad) \o src.after
  ELSE src.bytes

SourceStart(src) == IF src.kind = "varint" THEN Len(src.before) ELSE src.start

SourceLen(src) ==
  IF src.kind = "varint"
  THEN IF src.cut = 0 /\ src.after = <<>> THEN -1
       ELSE Len(EncPadded(src.v, src.pad)) + Len(src.after) - src.cut * (1 + Len(src.after))
  ELSE src.len

\* new ProtoDecoder(buffer, start, len), lines 65-71
ProtoDecoderNew(buffer, start, len) ==
  LET pos == IF start <= 0 THEN 0 ELSE start
  IN [bytes |-> buffer, pos |-> pos,
      end |-> pos + (IF len # -1 THEN len ELSE Len(buffer) - pos)]

PDInit ==
  /\ pdPc = "idle"
  /\ pdSrc = [kind |-> "none"]
  /\ pdBuf = <<>>
  /\ pdStart = 0
  /\ pdEnd = 0
  /\ pdOut = JsUndefined

PDOthers == UNCHANGED <<bpVars, axVars, pxVars, uiVars, mbVars, pngVars, projVars,
    ixVars>>

PDNew ==
  /\ pdPc = "idle"
  /\ \E src \in PDSources :
     \E d \in {ProtoDecoderNew(SourceBytes(src), SourceStart(src), SourceLen(src))} :
       /\ pdSrc' = src
       /\ pdBuf' = d.bytes
       /\ pdStart' = d.pos
       /\ pdEnd' = d.end
  /\ pdPc' = "constructed"
  /\ UNCHANGED pdOut
  /\ PDOthers

\* one call of _varint, lines 102-111
PDVarint ==
  /\ pdPc = "constructed"
  /\ pdPc' = "varint"
  /\ pdOut' = Varint(pdBuf, pdStart, pdEnd)
  /\ UNCHANGED <<pdSrc, pdBuf, pdStart, pdEnd>>
  /\ PDOthers

\* one call of readFields, lines 74-100
PDReadFields ==
  /\ pdPc = "constructed"
  /\ pdPc' = "readFields"
  /\ pdOut' = ReadFieldsFrom(pdBuf, pdStart, pdEnd, <<>>)
  /\ UNCHANGED <<pdSrc, pdBuf, pdStart, pdEnd>>
  /\ PDOthers

\* new ProtoXMLParser(buffer).parse(), whose decoder is the one
\* new ProtoDecoder(this.buf) gives (line 137)
PDParse ==
  /\ pdPc = "constructed"
  /\ pdStart = 0
  /\ pdEnd = Len(pdBuf)
  /\ pdPc' = "parse"
  /\ pdOut' = ProtoXMLParse(pdBuf).val
  /\ UNCHANGED <<pdSrc, pdBuf, pdStart, pdEnd>>
  /\ PDOthers

PDNext == PDNew \/ PDVarint \/ PDReadFields \/ PDParse

\* the position after the first byte at or after pos, below end, whose high
\* bit is clear; end if every byte up to end has it set; pos if the range
\* holds no byte
RECURSIVE AfterFirstLowByte(_, _, _)
AfterFirstLowByte(buf, pos, end) ==
  IF pos >= end THEN pos
  ELSE IF pos >= Len(buf) \/ buf[pos + 1] < 128 THEN pos + 1
  ELSE AfterFirstLowByte(buf, pos + 1, end)

\* the bytes of the decoder's range that the buffer holds
RangeBytes ==
  IF pdStart >= pdEnd \/ pdStart >= Len(pdBuf) THEN <<>>
  ELSE SubSeq(pdBuf, pdStart + 1, IF pdEnd < Len(pdBuf) THEN pdEnd ELSE Len(pdBuf))

\* R begins with the bytes of prefix
Begins(R, prefix) == Len(R) >= Len(prefix) /\ SubSeq(R, 1, Len(prefix)) = prefix

\* what the index pdOut.f holds for ranges that begin in the ways the tag
\* alphabet allows: nothing for an empty range, a zero field number or wire
\* type 3; the varint of field 10; two varints of field 1 in wire order;
\* nothing of what follows a tag of wire type 3
IndexAsRead ==
  LET R == RangeBytes
      f == pdOut.f
      one(v) == [wt |-> 0, v |-> v]
  IN /\ R = <<>> => f = <<>>
     /\ (Begins(R, <<0>>) \/ Begins(R, <<1>>) \/ Begins(R, <<11>>)) => f = <<>>
     /\ \A x \in {0, 1, 8, 80} :
          /\ Begins(R, <<80, x>>) => (10 \in DOMAIN f /\ f[10][1] = one(x))
          /\ Begins(R, <<8, x, 11>>) => f = (1 :> <<one(x)>>)
          /\ Begins(R, <<8, x, 0>>) => f = (1 :> <<one(x)>>)
          /\ \A y \in {0, 1, 8, 80} :
               Begins(R, <<8, x, 8, y>>) => f = (1 :> <<one(x), one(y)>>)
     /\ \A n \in DOMAIN f : Len(f[n]) >= 1

(***************************************************************************)
(* C23: _varint consumes the bytes up to and including the first byte     *)
(* whose high bit is clear, or up to the end of the decoder's range; for  *)
(* a varint that lies in the range it returns the value when the value is *)
(* below 2^28 and the low 28 bits of the value when it is not, and the    *)
(* cursor is then past the whole varint.                                  *)
(***************************************************************************)
C23_VarintLow28 ==
  pdPc = "varint" =>
    /\ pdOut.pos = AfterFirstLowByte(pdBuf, pdStart, pdEnd)
    /\ (pdSrc.kind = "varint" /\ pdSrc.cut = 0) =>
         /\ pdOut.pos = pdStart + Len(EncPadded(pdSrc.v, pdSrc.pad))
         /\ pdSrc.v < 2 ^ 28 => pdOut.v = pdSrc.v
         /\ pdSrc.v >= 2 ^ 28 => pdOut.v = pdSrc.v % (2 ^ 28)

\* the id 0x7f010001, written with empty groups above it and followed by
\* other bytes, has been read
C23_Witness ==
  /\ pdPc = "varint"
  /\ pdSrc.kind = "varint"
  /\ pdSrc.v = 2130771969
  /\ pdSrc.pad = MaxPad
  /\ pdSrc.after = <<128, 1>>
  /\ pdSrc.cut = 0
  /\ pdOut = [v |-> 251723777, pos |-> pdStart + 5 + MaxPad]

(***************************************************************************)
(* C24: readFields returns the fields decoded so far: it stops at the end *)
(* of its range, at a tag whose field number is 0, or at the first tag    *)
(* whose wire type is not 0, 1, 2 or 5, and what it returns is the index  *)
(* of the fields before that point, in wire order per field number, the   *)
(* fields of numbers the schema does not know included.                   *)
(***************************************************************************)
C24_ReturnsFieldsSoFar ==
  pdPc = "readFields" => (pdOut.t = "fields" /\ IndexAsRead)

(***************************************************************************)
(* C25: on every byte sequence readFields and ProtoXMLParser.parse return *)
(* a field index or a tree; neither throws.                               *)
(***************************************************************************)
C25_NothingThrown ==
  pdPc \in {"readFields", "parse"} => ~IsThrown(pdOut)

(***************************************************************************)
(* C29: every slice {off, len} readFields records for a length-delimited  *)
(* field lies inside the range [start, end) of the decoder that read it.  *)
(***************************************************************************)
C29_SlicesInsideRange ==
  (pdPc = "readFields" /\ pdOut.t = "fields") =>
    \A n \in DOMAIN pdOut.f :
      \A i \in 1 .. Len(pdOut.f[n]) :
        LET e == pdOut.f[n][i]
        IN e.wt = 2 => (pdStart <= e.off /\ e.off + e.len <= pdEnd)

(***************************************************************************)
(* _extractIcon of APKParser and AABParser on its own.                    *)
(*                                                                         *)
(* An entry name is a record: the module directory in front of res/ (""   *)
(* in an APK), the bucket, the density qualifier as its characters, the   *)
(* -v4 suffix and the file name.  Only the density qualifier of a name    *)
(* holds characters of a density, so includes(d) is decided on it.        *)
(***************************************************************************)
Chars(density) ==
  CASE density = "xxxhdpi" -> <<"x", "x", "x", "h", "d", "p", "i">>
    [] density = "xxhdpi" -> <<"x", "x", "h", "d", "p", "i">>
    [] density = "xhdpi" -> <<"x", "h", "d", "p", "i">>
    [] density = "hdpi" -> <<"h", "d", "p", "i">>
    [] density = "mdpi" -> <<"m", "d", "p", "i">>
    [] density = "anydpi" -> <<"a", "n", "y", "d", "p", "i">>

\* `${module}res/${b}-${d}${v4 ? '-v4' : ''}/${name}`
IconPath(module, b, d, v4, name) ==
  [module |-> module, bucket |-> b, density |-> Chars(d), v4 |-> v4, name |-> name]

\* aab-parser.js 134-136
densities == <<"xxxhdpi", "xxhdpi", "xhdpi", "hdpi", "mdpi">>

names == <<"ic_launcher.png", "ic_launcher_round.png">>

buckets == <<"mipmap", "drawable">>

\* apk-parser.js 137-155
APKCandidates ==
  <<IconPath("", "mipmap", "xxxhdpi", TRUE, "ic_launcher.png"),
    IconPath("", "mipmap", "xxhdpi", TRUE, "ic_launcher.png"),
    IconPath("", "mipmap", "xhdpi", TRUE, "ic_launcher.png"),
    IconPath("", "mipmap", "hdpi", TRUE, "ic_launcher.png"),
    IconPath("", "mipmap", "mdpi", TRUE, "ic_launcher.png"),
    IconPath("", "mipmap", "xxxhdpi", FALSE, "ic_launcher.png"),
    IconPath("", "mipmap", "xxhdpi", FALSE, "ic_launcher.png"),
    IconPath("", "mipmap", "xhdpi", FALSE, "ic_launcher.png"),
    IconPath("", "mipmap", "hdpi", FALSE, "ic_launcher.png"),
    IconPath("", "drawable", "xxxhdpi", TRUE, "ic_launcher.png"),
    IconPath("", "drawable", "xxhdpi", TRUE, "ic_launcher.png"),
    IconPath("", "drawable", "xhdpi", TRUE, "ic_launcher.png"),
    IconPath("", "drawable", "hdpi", TRUE, "ic_launcher.png"),
    IconPath("", "mipmap", "xxxhdpi", TRUE, "ic_launcher_round.png"),
    IconPath("", "mipmap", "xxhdpi", TRUE, "ic_launcher_round.png"),
    IconPath("", "mipmap", "xxxhdpi", FALSE, "ic_launcher_round.png"),
    IconPath("", "mipmap", "xxhdpi", FALSE, "ic_launcher_round.png")>>

\* aab-parser.js 139-147: the loops over names, densities and buckets, two
\* pushes in each round
AABCandidates ==
  [k \in 1 .. 2 * Len(names) * Len(densities) * Len(buckets) |->
     LET round == (k - 1) \div 2
         b == buckets[(round % Len(buckets)) + 1]
         d == densities[((round \div Len(buckets)) % Len(densities)) + 1]
         name == names[(round \div (Len(buckets) * Len(densities))) + 1]
     IN IconPath("base", b, d, k % 2 = 1, name)]

\* s.includes(d)
Includes(s, d) ==
  \E i \in 0 .. Len(s.density) - Len(Chars(d)) :
    SubSeq(s.density, i + 1, i + Len(Chars(d))) = Chars(d)

\* densityRank.findIndex(d => s.includes(d)), 99 for -1: apk-parser.js
\* 171-173, aab-parser.js 161-164
DensityRank(s) ==
  IF \E i \in 1 .. Len(densities) : Includes(s, densities[i])
  THEN (CHOOSE i \in 1 .. Len(densities) :
          /\ Includes(s, densities[i])
          /\ \A j \in 1 .. i - 1 : ~Includes(s, densities[j])) - 1
  ELSE 99

\* /ic_launcher[^/]*\.png$/i.test(f)
LauncherRegex(f) ==
  f.name \in {"ic_launcher.png", "ic_launcher_round.png", "ic_launcher_foreground.png"}

\* zip.file(path): the entry of that name, or null
ZipFile(zip, path) == \E i \in 1 .. Len(zip) : zip[i] = path

\* the indices of a list that pass a filter, in the order of the list, and
\* ...sort(by rank)[0] of them: the first of the lowest rank (the sort is
\* stable)
FirstOfLowestRank(zip, kept) ==
  zip[CHOOSE i \in kept :
        \A j \in kept : /\ DensityRank(zip[i]) <= DensityRank(zip[j])
                        /\ (DensityRank(zip[j]) = DensityRank(zip[i]) => i <= j)]

\* the result of a scan: the entry whose blob is read (JsNull: none) and
\* info.iconPath then
Scan(entry, iconPath, via) == [entry |-> entry, iconPath |-> iconPath, via |-> via]

\* apk-parser.js 157-184 and aab-parser.js 149-176: the candidates in turn,
\* then the regex fallback over the entries kept
ScanCandidates(zip, iconPath, list, kept) ==
  IF \E k \in 1 .. Len(list) : ZipFile(zip, list[k])
  THEN LET k == CHOOSE k \in 1 .. Len(list) :
                  /\ ZipFile(zip, list[k])
                  /\ \A j \in 1 .. k - 1 : ~ZipFile(zip, list[j])
       IN Scan(list[k], list[k], "candidate")
  ELSE IF kept # {}
  THEN Scan(FirstOfLowestRank(zip, kept), FirstOfLowestRank(zip, kept), "regex")
  ELSE Scan(JsNull, iconPath, "none")

\* APKParser._extractIcon, lines 129-185, up to its await
APKIconScan(zip, iconPath) ==
  IF iconPath # JsNull /\ ZipFile(zip, iconPath)
  THEN Scan(iconPath, iconPath, "literal")
  ELSE ScanCandidates(zip, iconPath, APKCandidates,
                      {i \in 1 .. Len(zip) : LauncherRegex(zip[i])})

\* 'base/' + info.iconPath
Prefixed(iconPath) == [iconPath EXCEPT !.module = "base"]

\* AABParser._extractIcon, lines 123-177, up to its await
AABIconScan(zip, iconPath) ==
  IF iconPath # JsNull /\ ZipFile(zip, Prefixed(iconPath))
  THEN Scan(Prefixed(iconPath), Prefixed(iconPath), "literal")
  ELSE ScanCandidates(zip, iconPath, AABCandidates,
                      {i \in 1 .. Len(zip) : zip[i].module = "base" /\ LauncherRegex(zip[i])})

\* every density x name x bucket x suffix
Combinations(module) ==
  {IconPath(module, buckets[b], densities[d], v4, names[n]) :
     b \in DOMAIN buckets, d \in DOMAIN densities, v4 \in BOOLEAN, n \in DOMAIN names}

\* entries outside the combinations: matched by the regex only, matched by
\* nothing, and an icon of another module of a bundle
OtherPaths(module) ==
  {IconPath(module, "mipmap", "xxxhdpi", FALSE, "ic_launcher_foreground.png"),
   IconPath(module, "mipmap", "anydpi", TRUE, "ic_launcher_foreground.png"),
   IconPath(module, "drawable", "anydpi", FALSE, "ic_launcher.png"),
   IconPath(module, "drawable", "hdpi", FALSE, "icon.png")}
    \cup IF module = "base"
         THEN {IconPath("feature", "mipmap", "xxxhdpi", FALSE, "ic_launcher.png")}
         ELSE {}

ModuleOf(kind) == IF kind = "aab" THEN "base" ELSE ""

\* the archives: up to MaxIcons entries, no name twice
IconZips(kind) ==
  {z \in UNION {[1 .. n -> Combinations(ModuleOf(kind)) \cup OtherPaths(ModuleOf(kind))] :
                  n \in 0 .. MaxIcons} :
     \A i, j \in DOMAIN z : z[i] = z[j] => i = j}

\* android:icon as _extractManifest (97-100) leaves it in info.iconPath:
\* null, or a literal path
LiteralPaths ==
  {JsNull,
   IconPath("", "drawable", "hdpi", FALSE, "icon.png"),
   IconPath("", "mipmap", "mdpi", FALSE, "ic_launcher.png")}

IXInit ==
  /\ ixPc = "idle"
  /\ ixKind = "none"
  /\ ixZip = <<>>
  /\ ixInfo = [iconPath |-> JsNull, icon |-> JsNull]
  /\ ixVia = "none"

IXOthers == UNCHANGED <<bpVars, axVars, pxVars, uiVars, mbVars, pngVars, projVars, pdVars>>

\* JSZip.loadAsync and the manifest are done: parse is at line 47 / 68
IXNew ==
  /\ ixPc = "idle"
  /\ \E kind \in {"apk", "aab"} :
       /\ ixKind' = kind
       /\ \E z \in IconZips(kind) : ixZip' = z
  /\ \E p \in LiteralPaths : ixInfo' = [iconPath |-> p, icon |-> JsNull]
  /\ ixPc' = "new"
  /\ ixVia' = "none"
  /\ IXOthers

\* info.icon = await this._extractIcon(...) with the scan's result: the
\* read of the entry succeeds or it rejects parse
IconSettled(scan) ==
  /\ ixVia' = scan.via
  /\ \/ /\ ixPc' = "done"
        /\ ixInfo' = [iconPath |-> scan.iconPath, icon |-> scan.entry]
     \/ /\ scan.entry # JsNull
        /\ ixPc' = "rejected"
        /\ ixInfo' = [iconPath |-> scan.iconPath, icon |-> JsNull]

\* apk-parser.js 47
IXAPK ==
  /\ ixPc = "new" /\ ixKind = "apk"
  /\ IconSettled(APKIconScan(ixZip, ixInfo.iconPath))
  /\ UNCHANGED <<ixKind, ixZip>>
  /\ IXOthers

\* aab-parser.js 68
IXAAB ==
  /\ ixPc = "new" /\ ixKind = "aab"
  /\ IconSettled(AABIconScan(ixZip, ixInfo.iconPath))
  /\ UNCHANGED <<ixKind, ixZip>>
  /\ IXOthers

IXNext == IXNew \/ IXAPK \/ IXAAB

\* the density of a combination, as its place in densities
DensityOf(p) == CHOOSE d \in DOMAIN densities : p.density = Chars(densities[d])

\* the combinations named ic_launcher.png that are in the archive
PresentLaunchers ==
  {p \in Combinations(ModuleOf(ixKind)) : p.name = "ic_launcher.png" /\ ZipFile(ixZip, p)}

(***************************************************************************)
(* C28: without a literal icon path the candidate scan picks highest      *)
(* density first: a chosen ic_launcher.png candidate is never of a lower  *)
(* density than another ic_launcher.png candidate present, and every      *)
(* combination density x name x bucket x suffix is tried before the regex *)
(* fallback.                                                               *)
(***************************************************************************)
C28_HighestDensityFirst ==
  (ixPc = "done" /\ ixVia # "literal") =>
    /\ ixInfo.icon \in PresentLaunchers =>
         \A p \in PresentLaunchers : DensityOf(ixInfo.icon) <= DensityOf(p)
    /\ (\E p \in Combinations(ModuleOf(ixKind)) : ZipFile(ixZip, p)) =>
         ixVia = "candidate"

(***************************************************************************)
(* C30: after parse returned, info.icon is non-null only if info.iconPath *)
(* is the name of an entry of the archive (the one the icon was read      *)
(* from), and info.iconPath is null whenever info.icon is null.           *)
(***************************************************************************)
C30_IconAndPathAgree ==
  ixPc = "done" =>
    /\ ixInfo.icon # JsNull => (ZipFile(ixZip, ixInfo.iconPath) /\ ixInfo.iconPath = ixInfo.icon)
    /\ ixInfo.icon = JsNull => ixInfo.iconPath = JsNull

(***************************************************************************)
(* The page: handleFile (main.js) and APKParser, AABParser, IPAParser.     *)
(*                                                                         *)
(* A call of handleFile is followed from one await to the next: each      *)
(* action is the code that runs when the awaited promise settles, up to   *)
(* the next await or to the end of handleFile.  What an archive holds and *)
(* whether a read or a conversion succeeds are inputs.  The parsers' own  *)
(* results (a tree, null, an error) are the ones the machines above give. *)
(***************************************************************************)
Files == 1 .. MaxFiles

Exts == {"apk", "aab", "ipa", "txt"}

\* one completed step of a call: its kind, the icon entry it is about (0 if
\* none) and whether it succeeded
Step(step, entry, ok) == [step |-> step, entry |-> entry, ok |-> ok]

NoZip == [entries |-> "none"]

NoInfo == [type |-> "none"]

NoCall == [pc |-> "none", ext |-> "none", zip |-> NoZip, info |-> NoInfo,
           log |-> <<>>, k |-> 0, fatal |-> "none"]

\* the manifests whose decoding gives a <manifest> tree
TreeKinds == {"axmlManifest", "protoManifest"}

\* what AndroidManifest.xml of an APK can hold
APKManifests == {"short", "axmlManifest", "axmlOther", "axmlThrows"}

\* what base/manifest/AndroidManifest.xml of an AAB can hold
AABManifests == {"short", "axmlManifest", "axmlThrows",
                 "protoManifest", "protoNull", "protoThrows"}

\* the APK and AAB archives: the entry list (bare: no META-INF, lib or dex
\* entries; full: one of each), the manifest entry, the android:icon of the
\* manifest (a literal path whose entry is present or absent) and what the
\* icon scan finds (a listed candidate, a regex match only, nothing)
AndroidZips(kinds) ==
  {z \in [entries : {"bare", "full"}, manifest : kinds \cup {"absent"},
          treeIcon : {"none", "literalPresent", "literalAbsent"},
          scan : {"none", "candidate", "regex"}] :
     z.treeIcon # "none" => z.manifest \in TreeKinds}

\* the IPA archives: the entry list (full: with a framework), the .app
\* directory, Info.plist, the number of search-list icons present, the
\* regex match (0: none, j <= icons: the j-th of them, icons + 1: another
\* entry) and embedded.mobileprovision
IPAZips ==
  {z \in [entries : {"bare", "full"}, appDir : BOOLEAN,
          plist : {"absent", "plist", "undecodable"},
          icons : 0 .. MaxIconEntries, regex : 0 .. MaxIconEntries + 1,
          prov : {"absent", "plain", "profile", "emptyPlist"}] :
     /\ z.regex <= z.icons + 1
     /\ ~z.appDir => /\ z.plist = "absent" /\ z.icons = 0 /\ z.regex = 0
                     /\ z.prov = "absent" /\ z.entries = "bare"}

\* the info object of APKParser.parse (11-32) and AABParser.parse (25-47)
AndroidInfo(type) ==
  [type |-> type, manifest |-> "default", manifestError |-> JsUndefined,
   iconPath |-> "null", icon |-> "null", signingInfo |-> "null",
   architectures |-> "null", dexCount |-> 0]

\* the info object of IPAParser.parse (11-31)
IPAInfo ==
  [type |-> "IPA", plist |-> "default", plistError |-> JsUndefined,
   icon |-> "null", hasProvisioning |-> FALSE, provisioningInfo |-> "null",
   frameworks |-> "null"]

Logged(c, step, entry, ok) == [c EXCEPT !.log = Append(@, Step(step, entry, ok))]

\* an error leaves the parser: the promise of parse() is rejected
Rejected(c, message) == [c EXCEPT !.pc = "rejected", !.fatal = message]

\* showLoading, lines 35-40, on the hidden classes of the four elements
ShowLoadingKeepsDropZone(h) ==
  [h EXCEPT !["loading"] = FALSE, !["results"] = TRUE, !["errorDiv"] = TRUE]

ShowLoading(h) ==
  [h EXCEPT !["loading"] = FALSE, !["results"] = TRUE, !["errorDiv"] = TRUE,
            !["dropZone"] = TRUE]

\* showError, lines 42-48
ShowError(h) ==
  [h EXCEPT !["loading"] = TRUE, !["results"] = TRUE, !["errorDiv"] = FALSE,
            !["dropZone"] = FALSE]

\* showResults, lines 50-54
ShowResults(h) ==
  [h EXCEPT !["loading"] = TRUE, !["dropZone"] = FALSE, !["results"] = FALSE,
            !["errorDiv"] = TRUE]

\* ---- APKParser ----

\* signing, native libs and DEX count, lines 49-69, and the return
APKFinish(c) ==
  [c EXCEPT !.pc = "resolved",
            !.info.signingInfo = IF c.zip.entries = "full" THEN "signed" ELSE "null",
            !.info.architectures = IF c.zip.entries = "full" THEN "arm64-v8a" ELSE "null",
            !.info.dexCount = IF c.zip.entries = "full" THEN 1 ELSE 0]

\* _extractIcon, lines 129-185, up to its await; without an entry to read it
\* returns null and parse goes on to its end
APKExtractIcon(c) ==
  IF c.info.iconPath = "literal" /\ c.zip.treeIcon = "literalPresent"
  THEN [c EXCEPT !.pc = "iconRead"]
  ELSE IF c.zip.scan \in {"candidate", "regex"}
  THEN [c EXCEPT !.pc = "iconRead", !.info.iconPath = c.zip.scan]
  ELSE APKFinish(c)

\* _extractManifest, lines 74-115, on the tree of a manifest of this kind
ExtractManifest(c) ==
  IF c.zip.manifest \in TreeKinds
  THEN Logged([c EXCEPT !.info.manifest = "projected",
                        !.info.iconPath = IF c.zip.treeIcon = "none" THEN "null"
                                          ELSE "literal"],
              "projection", 0, TRUE)
  ELSE Logged(c, "projection", 0, TRUE)

\* new AXMLParser(buf).parse() on the manifest of an APK: does it throw
AXMLThrows(kind) == kind \in {"short", "axmlThrows"}

\* lines 37-43 after the read: the tree is built and projected, or the
\* error is caught
APKManifest(c, readOk) ==
  IF ~readOk
  THEN [Logged(c, "manifestRead", 0, FALSE) EXCEPT !.info.manifestError = JsString("read")]
  ELSE IF AXMLThrows(c.zip.manifest)
  THEN [Logged(Logged(c, "manifestRead", 0, TRUE), "treeBuild", 0, FALSE)
          EXCEPT !.info.manifestError = JsString("parse")]
  ELSE ExtractManifest(Logged(Logged(c, "manifestRead", 0, TRUE), "treeBuild", 0, TRUE))

\* ---- AABParser ----

\* lines 70-90
AABFinish(c) == APKFinish(c)

\* _extractIcon, lines 123-177, up to its await
AABExtractIcon(c) ==
  IF c.info.iconPath = "literal" /\ c.zip.treeIcon = "literalPresent"
  THEN [c EXCEPT !.pc = "iconRead", !.info.iconPath = "prefixed"]
  ELSE IF c.zip.scan \in {"candidate", "regex"}
  THEN [c EXCEPT !.pc = "iconRead", !.info.iconPath = c.zip.scan]
  ELSE AABFinish(c)

\* _parseManifestBuffer, lines 102-119: "rangeError" when getUint16 throws,
\* else "tree" or "null"
ParseManifestBuffer(kind) ==
  CASE kind = "short" -> "rangeError"
    [] kind \in TreeKinds -> "tree"
    [] OTHER -> "null"

\* lines 60-68 after the read
AABManifest(c, readOk) ==
  IF ~readOk THEN Rejected(Logged(c, "manifestRead", 0, FALSE), "ManifestRead")
  ELSE LET read == Logged(c, "manifestRead", 0, TRUE)
           tree == ParseManifestBuffer(c.zip.manifest)
       IN CASE tree = "rangeError" -> Rejected(Logged(read, "treeBuild", 0, FALSE), "RangeError")
            [] tree = "null" -> AABExtractIcon(Logged(read, "treeBuild", 0, FALSE))
            [] OTHER -> AABExtractIcon(ExtractManifest(Logged(read, "treeBuild", 0, TRUE)))

\* ---- IPAParser ----

\* frameworks, lines 64-71, and the return
IPAFinish(c) ==
  [c EXCEPT !.pc = "resolved",
            !.info.frameworks = IF c.zip.entries = "full" THEN "list" ELSE "null"]

\* lines 55-62 up to the await
IPAProvisioning(c) ==
  IF c.zip.prov = "absent" THEN IPAFinish(c)
  ELSE [c EXCEPT !.pc = "provRead", !.info.hasProvisioning = TRUE]

\* the archive entry the k-th attempt of _extractIcon opens: the k-th search
\* name present, or after them the regex match
IconEntry(c, k) ==
  IF k <= c.zip.icons THEN k
  ELSE IF c.zip.regex = 0 THEN 0
  ELSE c.zip.regex

\* _extractIcon, lines 174-199, from its k-th attempt on, up to the await of
\* _loadIconEntry (208)
IPAExtractIcon(c, k) ==
  IF k <= c.zip.icons + 1 /\ IconEntry(c, k) # 0
  THEN [c EXCEPT !.pc = "iconBytes", !.k = k]
  ELSE IPAProvisioning([c EXCEPT !.k = 0])

\* _loadIconEntry returned a URL: lines 178 / 195, then 52
IPAIcon(c, icon) == IPAProvisioning([c EXCEPT !.info.icon = icon, !.k = 0])

\* the catch of line 211: the raw bytes are tried after a failure only
RawFallbackAlways(ok) == TRUE

RawFallback(ok) == ~ok

\* lines 42-48 after the read
IPAPlist(c, readOk) ==
  IF ~readOk
  THEN [Logged(c, "manifestRead", 0, FALSE) EXCEPT !.info.plistError = JsString("read")]
  ELSE IF c.zip.plist # "plist"
  THEN [Logged(Logged(c, "manifestRead", 0, TRUE), "treeBuild", 0, FALSE)
          EXCEPT !.info.plistError = JsString("parse")]
  ELSE Logged([Logged(Logged(c, "manifestRead", 0, TRUE), "treeBuild", 0, TRUE)
                 EXCEPT !.info.plist = "projected"],
              "projection", 0, TRUE)

\* ---- the page ----
UIInit ==
  /\ hidden = [el \in {"dropZone", "loading", "results", "errorDiv"} |-> el # "dropZone"]
  /\ resultsHTML = 0
  /\ errorText = [file |-> 0, message |-> "none"]
  /\ picker = FALSE
  /\ submitted = 0
  /\ calls = [f \in Files |-> NoCall]

UIOthers == UNCHANGED <<bpVars, axVars, pxVars, mbVars, pngVars, projVars,
    pdVars,
    ixVars>>

\* an element of class hidden is not displayed and gets no click or drop
Interactive(el) == ~hidden[el]

\* the calls whose handleFile is suspended at an await
InProgress == {f \in Files : calls[f].pc \notin {"none", "resolved", "rejected"}}

\* handleFile after its await, lines 28-32: showResults(info) when parse()
\* resolved, showError(..) when it rejected, nothing while it is suspended
Settle(f, c) ==
  /\ calls' = [calls EXCEPT ![f] = c]
  /\ CASE c.pc = "resolved" ->
            /\ hidden' = ShowResults(hidden)
            /\ resultsHTML' = f
            /\ UNCHANGED errorText
       [] c.pc = "rejected" ->
            /\ hidden' = ShowError(hidden)
            /\ errorText' = [file |-> f, message |-> c.fatal]
            /\ UNCHANGED resultsHTML
       [] OTHER -> UNCHANGED <<hidden, resultsHTML, errorText>>
  /\ UNCHANGED <<picker, submitted>>
  /\ UIOthers

\* handleFile(file), lines 20-28, for the next file, up to the await of
\* JSZip.loadAsync in the parser; the records of finished calls are gone
HandleFile(ext) ==
  /\ submitted < MaxFiles
  /\ submitted' = submitted + 1
  /\ LET f == submitted + 1
         live == [g \in Files |-> IF g \in InProgress THEN calls[g] ELSE NoCall]
     IN IF ext \notin {"apk", "aab", "ipa"}
        THEN /\ calls' = [live EXCEPT ![f] = [NoCall EXCEPT !.pc = "rejected", !.ext = ext,
                                                         !.fatal = "UnsupportedExtension"]]
             /\ hidden' = ShowError(hidden)
             /\ errorText' = [file |-> f, message |-> "UnsupportedExtension"]
             /\ UNCHANGED resultsHTML
        ELSE /\ calls' = [live EXCEPT ![f] = [NoCall EXCEPT !.pc = "loadAsync", !.ext = ext]]
             /\ hidden' = ShowLoading(hidden)
             /\ UNCHANGED <<resultsHTML, errorText>>
  /\ UIOthers

\* line 8: a click on the drop zone opens the file picker
DropZoneClick ==
  /\ Interactive("dropZone")
  /\ ~picker
  /\ picker' = TRUE
  /\ UNCHANGED <<hidden, resultsHTML, errorText, submitted, calls>>
  /\ UIOthers

\* the picker is closed without a file: no change event
PickerCancel ==
  /\ picker
  /\ picker' = FALSE
  /\ UNCHANGED <<hidden, resultsHTML, errorText, submitted, calls>>
  /\ UIOthers

\* lines 9-11: a file is chosen in the picker
FileInputChange ==
  /\ picker
  /\ picker' = FALSE
  /\ \E ext \in Exts : HandleFile(ext)

\* lines 14-18: a file is dropped on the drop zone
Drop ==
  /\ Interactive("dropZone")
  /\ ~picker
  /\ UNCHANGED picker
  /\ \E ext \in Exts : HandleFile(ext)

\* JSZip.loadAsync settles in APKParser.parse, lines 9-47
APKLoad(f) ==
  /\ calls[f].pc = "loadAsync" /\ calls[f].ext = "apk"
  /\ \/ Settle(f, Rejected(calls[f], "NotAnArchive"))
     \/ \E zip \in AndroidZips(APKManifests) :
          LET c == Logged([calls[f] EXCEPT !.zip = zip, !.info = AndroidInfo("APK")],
                          "list", 0, TRUE)
          IN Settle(f, IF zip.manifest # "absent" THEN [c EXCEPT !.pc = "manifestRead"]
                       ELSE APKExtractIcon(c))

\* manifestEntry.async('arraybuffer') settles, lines 38-47
APKManifestRead(f) ==
  /\ calls[f].pc = "manifestRead" /\ calls[f].ext = "apk"
  /\ \E readOk \in BOOLEAN : Settle(f, APKExtractIcon(APKManifest(calls[f], readOk)))

\* entry.async('blob') of _extractIcon settles, lines 133 / 161 / 180, then
\* 47-69
APKIconRead(f) ==
  /\ calls[f].pc = "iconRead" /\ calls[f].ext = "apk"
  /\ \E readOk \in BOOLEAN :
       Settle(f, IF readOk
                 THEN APKFinish([Logged(calls[f], "iconBlob", 1, TRUE) EXCEPT !.info.icon = "blob"])
                 ELSE Rejected(Logged(calls[f], "iconBlob", 1, FALSE), "IconRead"))

\* JSZip.loadAsync settles in AABParser.parse, lines 22-68
AABLoad(f) ==
  /\ calls[f].pc = "loadAsync" /\ calls[f].ext = "aab"
  /\ \/ Settle(f, Rejected(calls[f], "NotAnArchive"))
     \/ \E zip \in AndroidZips(AABManifests) :
          LET c == Logged([calls[f] EXCEPT !.zip = zip, !.info = AndroidInfo("AAB")],
                          "list", 0, TRUE)
          IN Settle(f, IF zip.manifest # "absent" THEN [c EXCEPT !.pc = "manifestRead"]
                       ELSE AABExtractIcon(c))

\* manifestEntry.async('arraybuffer') settles, lines 60-68
AABManifestRead(f) ==
  /\ calls[f].pc = "manifestRead" /\ calls[f].ext = "aab"
  /\ \E readOk \in BOOLEAN : Settle(f, AABManifest(calls[f], readOk))

\* entry.async('blob') of _extractIcon settles, lines 130 / 153 / 172, then
\* 68-90
AABIconRead(f) ==
  /\ calls[f].pc = "iconRead" /\ calls[f].ext = "aab"
  /\ \E readOk \in BOOLEAN :
       Settle(f, IF readOk
                 THEN AABFinish([Logged(calls[f], "iconBlob", 1, TRUE) EXCEPT !.info.icon = "blob"])
                 ELSE Rejected(Logged(calls[f], "iconBlob", 1, FALSE), "IconRead"))

\* JSZip.loadAsync settles in IPAParser.parse, lines 9-52
IPALoad(f) ==
  /\ calls[f].pc = "loadAsync" /\ calls[f].ext = "ipa"
  /\ \/ Settle(f, Rejected(calls[f], "NotAnArchive"))
     \/ \E zip \in IPAZips :
          LET c == Logged([calls[f] EXCEPT !.zip = zip, !.info = IPAInfo], "list", 0, TRUE)
          IN Settle(f, IF ~zip.appDir THEN Rejected(c, "No .app bundle found inside IPA")
                       ELSE IF zip.plist # "absent" THEN [c EXCEPT !.pc = "manifestRead"]
                       ELSE IPAExtractIcon(c, 1))

\* plistEntry.async('arraybuffer') settles, lines 43-52
IPAPlistRead(f) ==
  /\ calls[f].pc = "manifestRead" /\ calls[f].ext = "ipa"
  /\ \E readOk \in BOOLEAN : Settle(f, IPAExtractIcon(IPAPlist(calls[f], readOk), 1))

\* entry.async('uint8array') of _loadIconEntry settles, lines 208-211
IPAIconBytes(f) ==
  /\ calls[f].pc = "iconBytes"
  /\ \E readOk \in BOOLEAN :
       LET c == Logged(calls[f], "iconBytes", IconEntry(calls[f], calls[f].k), readOk)
       IN Settle(f, [c EXCEPT !.pc = IF RawFallback(readOk) THEN "iconBlob" ELSE "toBlob"])

\* CrushedPNG.toBlob settles, lines 209-211: the bytes pass through, are
\* restored from CgBI, or the conversion fails
IPAToBlob(f) ==
  /\ calls[f].pc = "toBlob"
  /\ \E result \in {"blob", "restored", "fail"} :
       LET c == Logged(calls[f], "toBlob", IconEntry(calls[f], calls[f].k), result # "fail")
       IN Settle(f, IF RawFallback(result # "fail") THEN [c EXCEPT !.pc = "iconBlob"]
                    ELSE IPAIcon(c, result))

\* entry.async('blob') of _loadIconEntry settles, lines 214-217
IPAIconBlob(f) ==
  /\ calls[f].pc = "iconBlob"
  /\ \E readOk \in BOOLEAN :
       LET c == Logged(calls[f], "iconBlob", IconEntry(calls[f], calls[f].k), readOk)
       IN Settle(f, IF readOk THEN IPAIcon(c, "raw")
                    ELSE IPAExtractIcon(c, c.k + 1))

\* provEntry.async('arraybuffer') settles, lines 59-71
IPAProvRead(f) ==
  /\ calls[f].pc = "provRead"
  /\ \E readOk \in BOOLEAN :
       LET c == Logged(calls[f], "provRead", 0, readOk)
       IN Settle(f, IPAFinish(IF readOk /\ c.zip.prov = "profile"
                              THEN [c EXCEPT !.info.provisioningInfo = "profile"]
                              ELSE c))

UINext ==
  \/ DropZoneClick
  \/ PickerCancel
  \/ FileInputChange
  \/ Drop
  \/ \E f \in Files :
       \/ APKLoad(f) \/ APKManifestRead(f) \/ APKIconRead(f)
       \/ AABLoad(f) \/ AABManifestRead(f) \/ AABIconRead(f)
       \/ IPALoad(f) \/ IPAPlistRead(f) \/ IPAIconBytes(f)
       \/ IPAToBlob(f) \/ IPAIconBlob(f) \/ IPAProvRead(f)

\* ---- what a call has done, read off its record ----
Terminal(c) == c.pc \in {"resolved", "rejected"}

HasStep(c, step, ok) ==
  \E i \in 1 .. Len(c.log) : c.log[i].step = step /\ c.log[i].ok = ok

IconSteps == {"iconBytes", "toBlob", "iconBlob"}

\* opening or converting an icon entry failed
IconFailed(c) ==
  \E i \in 1 .. Len(c.log) : c.log[i].step \in IconSteps /\ ~c.log[i].ok

\* the manifest entry is present but was not read or not decoded
ManifestFailed(c) ==
  \/ HasStep(c, "manifestRead", FALSE)
  \/ /\ HasStep(c, "manifestRead", TRUE)
     /\ c.zip.manifest \in {"short", "axmlThrows", "protoThrows"}

\* signingInfo, architectures and dexCount are the ones of the entry list
ArchiveFields(c) ==
  /\ c.info.signingInfo = IF c.zip.entries = "full" THEN "signed" ELSE "null"
  /\ c.info.architectures = IF c.zip.entries = "full" THEN "arm64-v8a" ELSE "null"
  /\ c.info.dexCount = IF c.zip.entries = "full" THEN 1 ELSE 0

\* the manifest-derived fields are the projection of the tree, if any
AsProjected(c) ==
  IF c.ext = "ipa"
  THEN (c.info.plist = "projected") <=> HasStep(c, "projection", TRUE)
  ELSE (c.info.manifest = "projected")
         <=> (HasStep(c, "projection", TRUE) /\ c.zip.manifest \in TreeKinds)

\* the place of a step in the order list, manifest read, tree, projection,
\* icon
Rank(step) ==
  CASE step = "list" -> 0
    [] step = "manifestRead" -> 1
    [] step = "treeBuild" -> 2
    [] step = "projection" -> 3
    [] OTHER -> 4

Ordered(log) ==
  /\ log # <<>> => log[1].step = "list"
  /\ \A i, j \in 1 .. Len(log) :
       i < j => /\ Rank(log[i].step) <= Rank(log[j].step)
                /\ Rank(log[i].step) < 4 => Rank(log[i].step) < Rank(log[j].step)

\* the reads of icon entries in a log
IconReads(log) == {i \in 1 .. Len(log) : log[i].step \in {"iconBytes", "iconBlob"}}

\* a CgBI conversion comes right after the successful read of its entry
RestoreAfterRead(log) ==
  \A i \in 1 .. Len(log) :
    log[i].step = "toBlob" =>
      i > 1 /\ log[i - 1] = Step("iconBytes", log[i].entry, TRUE)

(***************************************************************************)
(* C4: an APK or AAB whose manifest entry is present but cannot be read   *)
(* or decoded still ends with a BuildInfo: _manifestError holds the       *)
(* failure and signingInfo, architectures and dexCount are computed from  *)
(* the entry list.  (Requests whose icon read failed are left aside.)     *)
(***************************************************************************)
C4_ManifestFailureRecorded ==
  \A f \in Files :
    LET c == calls[f]
    IN (/\ c.ext \in {"apk", "aab"}
        /\ Terminal(c)
        /\ c.zip # NoZip
        /\ ManifestFailed(c)
        /\ ~IconFailed(c))
         => /\ c.pc = "resolved"
            /\ c.info.manifestError # JsUndefined
            /\ ArchiveFields(c)

(***************************************************************************)
(* C5: a request ends in an error shown to the user only for an           *)
(* unsupported extension or a file that is not a readable archive.        *)
(***************************************************************************)
C5_FatalOnlyForExtensionOrArchive ==
  \A f \in Files :
    calls[f].pc = "rejected" =>
      calls[f].fatal \in {"UnsupportedExtension", "NotAnArchive"}

(***************************************************************************)
(* C6: when opening or converting an icon entry fails, the request still  *)
(* ends with a BuildInfo whose manifest-derived fields are the projected  *)
(* ones; no error reaches handleFile.                                     *)
(***************************************************************************)
C6_IconFailureContained ==
  \A f \in Files :
    LET c == calls[f]
    IN (c.zip # NoZip /\ IconFailed(c)) =>
         /\ c.pc # "rejected"
         /\ c.pc = "resolved" => AsProjected(c)

(***************************************************************************)
(* C7 as stated: in every request the steps come in the order list,       *)
(* manifest read, tree build, projection, icon read; at most one read of  *)
(* an icon entry is made; a CgBI conversion follows the read.             *)
(***************************************************************************)
C7_IconReadAtMostOnce ==
  \A f \in Files :
    /\ Ordered(calls[f].log)
    /\ Cardinality(IconReads(calls[f].log)) <= 1
    /\ RestoreAfterRead(calls[f].log)

(***************************************************************************)
(* C7 amended: the order holds in every request, and a CgBI conversion    *)
(* comes right after the read of its entry.  APK and AAB read at most one *)
(* icon entry, once.  IPA may read more: an entry is read again, as a raw *)
(* blob, right after its read or its conversion failed, and the next      *)
(* entry is read only after that raw read failed too.                     *)
(***************************************************************************)
C7_OrderedIconReads ==
  \A f \in Files :
    LET c == calls[f]
        log == c.log
    IN /\ Ordered(log)
       /\ RestoreAfterRead(log)
       /\ c.ext \in {"apk", "aab"} => Cardinality(IconReads(log)) <= 1
       /\ c.ext = "ipa" =>
            \A i \in 1 .. Len(log) :
              /\ log[i].step = "iconBlob" =>
                   /\ i > 1
                   /\ log[i - 1].step \in {"iconBytes", "toBlob"}
                   /\ log[i - 1].entry = log[i].entry
                   /\ ~log[i - 1].ok
              /\ (log[i].step = "iconBytes" /\ i > 1 /\ log[i - 1].step \in IconSteps) =>
                   /\ log[i - 1].step = "iconBlob"
                   /\ ~log[i - 1].ok

\* an IPA request that read an icon entry, failed to convert it, read it
\* again as a raw blob and ended with that icon
C7_Witness ==
  \E f \in Files :
    /\ calls[f].ext = "ipa"
    /\ calls[f].pc = "resolved"
    /\ calls[f].info.icon = "raw"
    /\ HasStep(calls[f], "projection", TRUE)
    /\ HasStep(calls[f], "toBlob", FALSE)
    /\ Cardinality(IconReads(calls[f].log)) = 2

IsAXMLByFirstByte(buf) == buf[1] = RES_XML_TYPE

\* isAXML, lines 103-104 (the buffer holds the 2 bytes getUint16 reads)
IsAXML(buf) == buf[1] + buf[2] * 256 = RES_XML_TYPE

\* new AXMLParser(buf).parse(), main.js lines 295-346, from this.offset =
\* at (0: the header reads of lines 296-302; else the loop of line 307)
RECURSIVE AXMLBytes(_, _, _)
AXMLBytes(buf, at, fileSize) ==
  IF at = 0
  THEN IF Len(buf) < 8 THEN JsError("RangeError")
       ELSE IF buf[1] + buf[2] * 256 # RES_XML_TYPE
       THEN JsError("Not a valid Android Binary XML file")
       ELSE AXMLBytes(buf, 8, Uint32LE(buf, 4))
  ELSE IF ~(at < fileSize /\ at < Len(buf))
  THEN [t |-> "element", tag |-> JsString("#document")]
  ELSE IF at + 8 > Len(buf) THEN JsError("RangeError")
  ELSE IF \/ Uint32LE(buf, at + 4) < 8
          \/ at + Uint32LE(buf, at + 4) > Len(buf)
  THEN [t |-> "element", tag |-> JsString("#document")]
  ELSE IF buf[at + 1] + buf[at + 2] * 256
            \in {RES_STRING_POOL_TYPE, RES_XML_RESOURCE_MAP_TYPE,
                 RES_XML_START_NAMESPACE_TYPE, RES_XML_START_ELEMENT_TYPE}
  THEN \* a chunk with a parser of its own (the AXML machine above); no
       \* buffer of ManifestBuffers holds one
       [t |-> "chunk", at |-> at]
  ELSE AXMLBytes(buf, at + Uint32LE(buf, at + 4), fileSize)

\* what base/manifest/AndroidManifest.xml can hold: every proto manifest of
\* Docs; buffers too short for a 16-bit word; proto bytes without an
\* element; proto bytes whose string runs past the buffer; and buffers
\* that open with 03 00
ManifestBuffers ==
  {EncDoc(d) : d \in Docs}
    \cup { <<>>, <<10>>,
           <<16, 1>>, <<3, 1>>, <<3, 1, 8, 0, 8, 0, 0, 0>>,
           <<10, 2, 26, 5>>, <<10, 6, 26, 9, 0, 0, 0, 0>>,
           <<3, 0>>, <<3, 0, 8, 0, 8, 0, 0, 0>>,
           <<3, 0, 8, 0, 12, 0, 0, 0, 0, 0, 0, 0>>,
           <<3, 0, 8, 0, 16, 0, 0, 0, 4, 1, 8, 0, 8, 0, 0, 0>>,
           <<3, 0, 8, 0, 16, 0, 0, 0, 3, 1, 8, 0, 4, 0, 0, 0>> }

MBInit ==
  /\ mbPc = "idle"
  /\ mbBuf = <<>>
  /\ mbTried = <<>>
  /\ mbResult = JsUndefined

\* everything outside this machine
MBOthers == UNCHANGED <<bpVars, axVars, pxVars, uiVars, pngVars, projVars,
    pdVars,
    ixVars>>

\* _parseManifestBuffer(buf), lines 102-106: getUint16(0, true) raises
\* RangeError on a buffer of fewer than 2 bytes
MBCall ==
  /\ mbPc = "idle"
  /\ \E buf \in ManifestBuffers :
       /\ mbBuf' = buf
       /\ IF Len(buf) < 2
          THEN mbPc' = "thrown" /\ mbResult' = JsError("RangeError")
          ELSE /\ mbPc' = IF IsAXML(buf) THEN "axml" ELSE "proto"
               /\ UNCHANGED mbResult
  /\ UNCHANGED mbTried
  /\ MBOthers

\* lines 108-111: the proto attempt inside its try
MBProto ==
  /\ mbPc = "proto"
  /\ \E r \in {ProtoXMLParse(mbBuf).val} :
       /\ mbTried' = Append(mbTried, [decoder |-> "proto", threw |-> IsThrown(r)])
       /\ IF IsThrown(r)
          THEN mbPc' = "axml" /\ UNCHANGED mbResult
          ELSE mbPc' = "returned" /\ mbResult' = r
  /\ UNCHANGED mbBuf
  /\ MBOthers

\* lines 114-119: the AXML attempt inside its try, then return null
MBAxml ==
  /\ mbPc = "axml"
  /\ \E r \in {AXMLBytes(mbBuf, 0, 0)} :
       /\ mbTried' = Append(mbTried, [decoder |-> "axml", threw |-> IsThrown(r)])
       /\ mbResult' = IF IsThrown(r) THEN JsNull ELSE r
  /\ mbPc' = "returned"
  /\ UNCHANGED mbBuf
  /\ MBOthers

MBNext == MBCall \/ MBProto \/ MBAxml

\* the first 16-bit little-endian word of the buffer being decoded
FirstWord == mbBuf[1] + 256 * mbBuf[2]

(***************************************************************************)
(* C11: _parseManifestBuffer selects the decoder from the first 16-bit    *)
(* little-endian word: when it is 0x0003 only the AXML decoder is run;    *)
(* otherwise the proto decoder is run first and the AXML decoder is run   *)
(* after it exactly when the proto attempt threw.                          *)
(***************************************************************************)
C11_DecoderSelection ==
  mbPc \in {"proto", "axml", "returned"} =>
    /\ FirstWord = 3 =>
         /\ mbPc # "proto"
         /\ \A i \in 1 .. Len(mbTried) : mbTried[i].decoder = "axml"
         /\ mbPc = "returned" => Len(mbTried) = 1
    /\ FirstWord # 3 =>
         /\ mbPc = "proto" => mbTried = <<>>
         /\ mbPc = "axml" =>
              mbTried = <<[decoder |-> "proto", threw |-> TRUE]>>
         /\ mbPc = "returned" =>
              /\ mbTried[1].decoder = "proto"
              /\ Len(mbTried) = (IF mbTried[1].threw THEN 2 ELSE 1)
              /\ Len(mbTried) = 2 => mbTried[2].decoder = "axml"

\* a proto attempt that threw, followed by the AXML attempt
C11_Witness ==
  /\ mbPc = "returned"
  /\ FirstWord # 3
  /\ Len(mbTried) = 2
  /\ mbTried[1] = [decoder |-> "proto", threw |-> TRUE]
  /\ mbTried[2].decoder = "axml"
  /\ mbResult = JsNull

(***************************************************************************)
(* CrushedPNG._uncrush and _decodePixels                                   *)
(*                                                                         *)
(* A typed array holds bytes: a store keeps the value modulo 256 and a    *)
(* store of undefined or NaN keeps 0.  A read past the end of inflated    *)
(* gives undefined (-1 below), and arithmetic on undefined gives NaN,     *)
(* whose bitwise and with 0xff is 0.                                       *)
(***************************************************************************)
\* a predictor that gives a only when a is strictly the nearest
PaethStrict(a, b, c) ==
  LET p == a + b - c
      pa == IF p - a < 0 THEN a - p ELSE p - a
      pb == IF p - b < 0 THEN b - p ELSE p - b
      pc == IF p - c < 0 THEN c - p ELSE p - c
  IN IF pa < pb /\ pa < pc THEN a
     ELSE IF pb <= pc THEN b
     ELSE c

\* _paeth(a, b, c), lines 462-470
Paeth(a, b, c) ==
  LET p == a + b - c
      pa == IF p - a < 0 THEN a - p ELSE p - a
      pb == IF p - b < 0 THEN b - p ELSE p - b
      pc == IF p - c < 0 THEN c - p ELSE p - c
  IN IF pa <= pb /\ pa <= pc THEN a
     ELSE IF pb <= pc THEN b
     ELSE c

\* the filter loop of lines 334-348 from i = Len(curr) on: curr is the part
\* of the row reversed so far, n = width * bpp
RECURSIVE Unfilter(_, _, _, _, _, _)
Unfilter(data, rowOff, n, bpp, prev, curr) ==
  IF Len(curr) >= n THEN curr
  ELSE LET i == Len(curr)
           filterType == IF rowOff < Len(data) THEN data[rowOff + 1] ELSE -1
           raw == IF rowOff + 1 + i < Len(data)
                  THEN data[rowOff + 2 + i] ELSE -1
           a == IF i >= bpp THEN curr[i - bpp + 1] ELSE 0
           b == prev[i + 1]
           c == IF i >= bpp THEN prev[i - bpp + 1] ELSE 0
       IN Unfilter(data, rowOff, n, bpp, prev,
            Append(curr,
              CASE raw = -1       -> 0
                [] filterType = 1 -> (raw + a) % 256
                [] filterType = 2 -> (raw + b) % 256
                [] filterType = 3 -> (raw + ((a + b) \div 2)) % 256
                [] filterType = 4 -> (raw + Paeth(a, b, c)) % 256
                [] OTHER          -> raw))

\* a pixel whose alpha is 0 keeps the colour bytes stored with it
PixelKeepsColour(curr, x, bpp) ==
  <<curr[x * bpp + 3], curr[x * bpp + 2], curr[x * bpp + 1],
    IF bpp = 4 THEN curr[x * bpp + 4] ELSE 255>>

\* a conversion that drops the fraction of C * 255 / A
PixelFloor(curr, x, bpp) ==
  LET B == curr[x * bpp + 1]
      G == curr[x * bpp + 2]
      R == curr[x * bpp + 3]
      A == IF bpp = 4 THEN curr[x * bpp + 4] ELSE 255
      unmul(v) == IF (v * 255) \div A < 255 THEN (v * 255) \div A ELSE 255
  IN IF A = 0 THEN <<0, 0, 0, 0>>
     ELSE IF A < 255 /\ bpp = 4 THEN <<unmul(R), unmul(G), unmul(B), A>>
     ELSE <<R, G, B, A>>

\* lines 352-374: the R, G, B, A written for pixel x of the row; Math.round
\* of a non-negative quotient n / d is (2n + d) div 2d
Pixel(curr, x, bpp) ==
  LET B == curr[x * bpp + 1]
      G == curr[x * bpp + 2]
      R == curr[x * bpp + 3]
      A == IF bpp = 4 THEN curr[x * bpp + 4] ELSE 255
      unmul(v) == IF (2 * v * 255 + A) \div (2 * A) < 255
                  THEN (2 * v * 255 + A) \div (2 * A) ELSE 255
  IN IF A = 0 THEN <<0, 0, 0, 0>>
     ELSE IF A < 255 /\ bpp = 4 THEN <<unmul(R), unmul(G), unmul(B), A>>
     ELSE <<R, G, B, A>>

\* _decodePixels(inflated, width, height, bpp), lines 323-381, from row y
\* on (data is inflated): prev is the row above and out the part of the plane written so far
RECURSIVE DecodePixels(_, _, _, _, _, _, _)
RECURSIVE DecodeRow(_, _, _, _, _, _, _)
DecodePixels(data, width, height, bpp, y, prev, out) ==
  IF y >= height THEN out
  ELSE DecodeRow(data, width, height, bpp, y, out,
         Unfilter(data, y * (1 + width * bpp), width * bpp, bpp, prev, <<>>))

\* lines 351-377 for the reversed row curr, and on to the next row
DecodeRow(data, width, height, bpp, y, out, curr) ==
  DecodePixels(data, width, height, bpp, y + 1, curr,
    out \o [k \in 1 .. width * 4 |-> Pixel(curr, (k - 1) \div 4, bpp)[((k - 1) % 4) + 1]])

\* the chunks of a CgBI file as _uncrush reads them: is there an IHDR, and
\* its width, height, bit depth and colour type
Headers ==
  [ihdr : BOOLEAN, width : 0 .. MaxWidth, height : 0 .. MaxHeight,
   bitDepth : {8, 16}, colorType : {2, 3, 6}]

\* the B, G, R, A bytes the rows are written from: half-transparent,
\* transparent with colour left in it, colour above alpha, opaque red,
\* opaque blue
PixelBytes ==
  << <<80, 80, 80, 128>>, <<9, 7, 5, 0>>, <<200, 100, 50, 100>>, <<0, 0, 255, 255>>,
     <<255, 0, 0, 255>> >>

\* what the raw inflate of the IDAT data can give for a width x height
\* image of bpp bytes per pixel: rows of a filter byte (5: not a filter)
\* and pixels of PixelBytes, whole or cut short
Inflated(width, height, bpp) ==
  LET full == height * (1 + width * bpp)
      byte(f, p, k) ==
        IF k % (1 + width * bpp) = 0 THEN f[(k \div (1 + width * bpp)) + 1]
        ELSE LET y == k \div (1 + width * bpp)
                 i == (k % (1 + width * bpp)) - 1
             IN PixelBytes[((p[y + 1] + (i \div bpp)) % Len(PixelBytes)) + 1][(i % bpp) + 1]
  IN { [k \in 1 .. cut |-> byte(f, p, k - 1)] :
         f \in [1 .. height -> 0 .. 5],
         p \in [1 .. height -> 0 .. (Len(PixelBytes) - 1)],
         cut \in {n \in {0, full - 1, full} : n >= 0} }

PNGInit ==
  /\ pngPc = "idle"
  /\ ihdr = [ihdr |-> FALSE, width |-> 0, height |-> 0, bitDepth |-> 0, colorType |-> 0]
  /\ inflated = <<>>
  /\ rgba = <<>>
  /\ pngError = "none"

\* everything outside this machine
PNGOthers == UNCHANGED <<bpVars, axVars, pxVars, uiVars, mbVars, projVars,
    pdVars,
    ixVars>>

\* _uncrush(chunks), lines 290-312, up to the await of _rawInflate
Uncrush ==
  /\ pngPc = "idle"
  /\ \E h \in Headers :
       /\ ihdr' = h
       /\ IF ~h.ihdr
          THEN pngPc' = "rejected" /\ pngError' = "Missing IHDR chunk"
          ELSE IF h.bitDepth # 8 \/ h.colorType \notin {2, 6}
          THEN pngPc' = "rejected" /\ pngError' = "Unsupported CgBI format"
          ELSE pngPc' = "rawInflate" /\ UNCHANGED pngError
  /\ UNCHANGED <<inflated, rgba>>
  /\ PNGOthers

\* _rawInflate settles, lines 312-318: it rejects, or it gives the bytes
\* and _decodePixels builds the plane handed to the canvas
RawInflate ==
  /\ pngPc = "rawInflate"
  /\ \/ /\ pngPc' = "rejected"
        /\ pngError' = "inflate"
        /\ UNCHANGED <<inflated, rgba>>
     \/ \E data \in Inflated(ihdr.width, ihdr.height, IF ihdr.colorType = 6 THEN 4 ELSE 3) :
          /\ inflated' = data
          /\ rgba' = DecodePixels(data, ihdr.width, ihdr.height,
                                  IF ihdr.colorType = 6 THEN 4 ELSE 3, 0,
                                  [k \in 1 .. ihdr.width * (IF ihdr.colorType = 6 THEN 4 ELSE 3) |-> 0],
                                  <<>>)
          /\ pngPc' = "toBlob"
          /\ UNCHANGED pngError
  /\ UNCHANGED ihdr
  /\ PNGOthers

PNGNext == Uncrush \/ RawInflate

\* bytes per pixel of the image being restored, line 304
Bpp == IF ihdr.colorType = 6 THEN 4 ELSE 3

(***************************************************************************)
(* C12: the plane _decodePixels gives has exactly width * height * 4      *)
(* bytes, every byte of it lies in 0 .. 255, and every pixel whose alpha  *)
(* is 0 has R = G = B = 0.                                                 *)
(***************************************************************************)
C12_PlaneWellFormed ==
  pngPc = "toBlob" =>
    /\ Len(rgba) = ihdr.width * ihdr.height * 4
    /\ \A k \in 1 .. Len(rgba) : rgba[k] \in 0 .. 255
    /\ \A p \in 0 .. (ihdr.width * ihdr.height - 1) :
         rgba[4 * p + 4] = 0 =>
           rgba[4 * p + 1] = 0 /\ rgba[4 * p + 2] = 0 /\ rgba[4 * p + 3] = 0

\* a whole RGBA image restored whose first stored pixel is 9, 7, 5, 0
\* (given back as 0, 0, 0, 0) and whose second is 200, 100, 50, 100 (given
\* back as 128, 255, 255, 100)
C12_Witness ==
  /\ pngPc = "toBlob"
  /\ ihdr.width = 2 /\ ihdr.height >= 1 /\ Bpp = 4
  /\ Len(inflated) = ihdr.height * 9
  /\ SubSeq(inflated, 1, 9) = <<0, 9, 7, 5, 0, 200, 100, 50, 100>>
  /\ SubSeq(rgba, 1, 8) = <<0, 0, 0, 0, 128, 255, 255, 100>>

\* |m - n|
Distance(m, n) == IF m < n THEN n - m ELSE m - n

\* the PNG reference predictor: of a, b, c the one nearest to a + b - c,
\* on equal distances a before b before c
PaethReference(a, b, c) ==
  LET p == a + b - c
      near(v) == \A w \in {a, b, c} : Distance(p, v) <= Distance(p, w)
  IN IF near(a) THEN a ELSE IF near(b) THEN b ELSE c

\* the PNG reference for byte i of scanline y of the image in inflated
RECURSIVE Recon(_, _)
Recon(y, i) ==
  LET stride == 1 + ihdr.width * Bpp
      filterType == inflated[y * stride + 1]
      raw == inflated[y * stride + 2 + i]
      a == IF i >= Bpp THEN Recon(y, i - Bpp) ELSE 0
      b == IF y > 0 THEN Recon(y - 1, i) ELSE 0
      c == IF i >= Bpp /\ y > 0 THEN Recon(y - 1, i - Bpp) ELSE 0
  IN CASE filterType = 0 -> raw
       [] filterType = 1 -> (raw + a) % 256
       [] filterType = 2 -> (raw + b) % 256
       [] filterType = 3 -> (raw + ((a + b) \div 2)) % 256
       [] filterType = 4 -> (raw + PaethReference(a, b, c)) % 256

\* every scanline is there and has one of the five filter types
WholeImage ==
  /\ pngPc = "toBlob"
  /\ Len(inflated) = ihdr.height * (1 + ihdr.width * Bpp)
  /\ \A y \in 0 .. (ihdr.height - 1) : inflated[y * (1 + ihdr.width * Bpp) + 1] \in 0 .. 4

(***************************************************************************)
(* C26: _decodePixels reverses the filter of each scanline as the PNG     *)
(* reference does: every pixel of the plane is the pixel made of the      *)
(* bytes the reference reconstructs, for None, Sub, Up, Average and Paeth *)
(* with a the byte bpp to the left, b the byte above, c the byte above    *)
(* left (0 where there is none), and a predictor that prefers a, then b,  *)
(* then c on equal distances.                                             *)
(***************************************************************************)
C26_FiltersAsReference ==
  WholeImage =>
    \A y \in 0 .. (ihdr.height - 1), x \in 0 .. (ihdr.width - 1) :
      SubSeq(rgba, (y * ihdr.width + x) * 4 + 1, (y * ihdr.width + x) * 4 + 4)
        = Pixel([i \in 1 .. ihdr.width * Bpp |-> Recon(y, i - 1)], x, Bpp)

\* an image of two rows of two pixels whose second row has the Paeth filter
\* and whose first has the Average filter
C26_Witness ==
  /\ WholeImage
  /\ ihdr.width = 2 /\ ihdr.height = 2
  /\ inflated[1] = 3
  /\ inflated[2 + 2 * Bpp] = 4
  /\ \E i \in Bpp .. (2 * Bpp - 1) :
       LET a == Recon(1, i - Bpp)
           b == Recon(0, i)
           c == Recon(0, i - Bpp)
       IN /\ a # c
          /\ Distance(a + b - c, a) = Distance(a + b - c, c)
          /\ Distance(a + b - c, a) <= Distance(a + b - c, b)

\* min(255, round(v * 255 / A)) for 0 < A: round gives the integer k with
\* k - 1/2 <= v * 255 / A < k + 1/2
Unpremultiplied(v, A) ==
  IF \E k \in 0 .. 254 : 2 * A * k - A <= 510 * v /\ 510 * v < 2 * A * k + A
  THEN CHOOSE k \in 0 .. 254 : 2 * A * k - A <= 510 * v /\ 510 * v < 2 * A * k + A
  ELSE 255

\* the stored pixel x of scanline y, by the PNG reference: B, G, R, and A
\* when the image has an alpha channel
StoredPixel(y, x) == [i \in 1 .. Bpp |-> Recon(y, x * Bpp + i - 1)]

PlanePixel(y, x) ==
  SubSeq(rgba, (y * ihdr.width + x) * 4 + 1, (y * ihdr.width + x) * 4 + 4)

(***************************************************************************)
(* C27: for a stored pixel (B, G, R, A) _decodePixels emits (0, 0, 0, 0)  *)
(* when A = 0, (min(255, round(R*255/A)), min(255, round(G*255/A)),       *)
(* min(255, round(B*255/A)), A) when 0 < A < 255 in an RGBA image, and    *)
(* (R, G, B, A) otherwise, A being 255 in an RGB image.                   *)
(***************************************************************************)
C27_PixelConversion ==
  WholeImage =>
    \A y \in 0 .. (ihdr.height - 1), x \in 0 .. (ihdr.width - 1) :
      LET s == StoredPixel(y, x)
          A == IF Bpp = 4 THEN s[4] ELSE 255
      IN PlanePixel(y, x) =
           IF A = 0 THEN <<0, 0, 0, 0>>
           ELSE IF A < 255
           THEN <<Unpremultiplied(s[3], A), Unpremultiplied(s[2], A),
                  Unpremultiplied(s[1], A), A>>
           ELSE <<s[3], s[2], s[1], 255>>

\* an unfiltered RGBA row that stores (80, 80, 80, 128) and then an opaque
\* pixel, and below it a row that begins with the opaque (255, 0, 0, 255)
C27_Witness ==
  /\ WholeImage
  /\ Bpp = 4 /\ ihdr.width = 2 /\ ihdr.height = 2
  /\ inflated[1] = 0 /\ inflated[10] = 0
  /\ SubSeq(inflated, 2, 5) = <<80, 80, 80, 128>>
  /\ SubSeq(inflated, 11, 14) = <<255, 0, 0, 255>>
  /\ PlanePixel(0, 0) = <<159, 159, 159, 128>>
  /\ PlanePixel(1, 0) = <<0, 0, 255, 255>>

(***************************************************************************)
(* C13: restoring a CgBI PNG that has no IHDR chunk, or whose inflated    *)
(* data is shorter than height * (1 + width * bpp) bytes, ends in an      *)
(* error: no plane is built from bytes that are not there.                *)
(***************************************************************************)
C13_TruncatedIsError ==
  /\ ~ihdr.ihdr => pngPc \in {"idle", "rejected"}
  /\ pngPc = "toBlob" => Len(inflated) >= ihdr.height * (1 + ihdr.width * Bpp)

(***************************************************************************)
(* The projection of the manifest tree and of the entry list into the     *)
(* BuildInfo: info.activities and info.architectures.                     *)
(*                                                                         *)
(* An element is a record of its tag, its android:name and its children.  *)
(* An entry name is the sequence of its parts between the slashes; a part *)
(* ends with ".so" when it is one of SoNames.                              *)
(***************************************************************************)
\* _children(el, tag), apk-parser.js lines 193-195
Children(el, tag) == SelectSeq(el.children, LAMBDA c : c.tag = tag)

\* MAIN and LAUNCHER looked for in all the intent-filters taken together
IsLauncherAcrossFilters(activity) ==
  /\ \E i \in 1 .. Len(activity.children) :
       /\ activity.children[i].tag = "intent-filter"
       /\ Children(activity.children[i], "action") # <<>>
       /\ \E j \in 1 .. Len(activity.children[i].children) :
            activity.children[i].children[j] =
              [tag |-> "action", name |-> "android.intent.action.MAIN", children |-> <<>>]
  /\ \E i \in 1 .. Len(activity.children) :
       /\ activity.children[i].tag = "intent-filter"
       /\ \E j \in 1 .. Len(activity.children[i].children) :
            activity.children[i].children[j] =
              [tag |-> "category", name |-> "android.intent.category.LAUNCHER", children |-> <<>>]

\* _isLauncher(activity), lines 117-125
IsLauncher(activity) ==
  SelectSeq(Children(activity, "intent-filter"),
            LAMBDA f :
              /\ SelectSeq(Children(f, "action"),
                           LAMBDA a : a.name = "android.intent.action.MAIN") # <<>>
              /\ SelectSeq(Children(f, "category"),
                           LAMBDA c : c.name = "android.intent.category.LAUNCHER") # <<>>)
    # <<>>

\* the <application> elements the projection is run on: up to MaxActivities
\* children, each an activity (or an activity-alias) named after its place,
\* with up to MaxFilters children: intent-filters holding no, one, both or
\* swapped MAIN / LAUNCHER names, and a meta-data holding both
Applications ==
  LET leaf(tag, name) == [tag |-> tag, name |-> name, children |-> <<>>]
      main == "android.intent.action.MAIN"
      launcher == "android.intent.category.LAUNCHER"
      both == <<leaf("action", main), leaf("category", launcher)>>
      kids == { <<>>, <<leaf("action", main)>>, <<leaf("category", launcher)>>, both,
                <<leaf("action", launcher), leaf("category", main)>> }
      filters == {[tag |-> "intent-filter", name |-> "", children |-> k] : k \in kids}
                   \cup {[tag |-> "meta-data", name |-> "", children |-> both]}
      filterSeqs == UNION {[1 .. n -> filters] : n \in 0 .. MaxFilters}
      tags == UNION {[1 .. n -> {"activity", "activity-alias"}] : n \in 0 .. MaxActivities}
  IN UNION { { [tag |-> "application", name |-> "",
                children |-> [i \in 1 .. Len(t) |->
                                [tag |-> t[i], name |-> <<".A", i>>, children |-> c[i]]]] :
               c \in [1 .. Len(t) -> filterSeqs] } : t \in tags }

\* the parts that end with ".so"
SoNames == {"libfoo.so", "libbar.so", "foo.so"}

\* the entry lists of an archive: up to MaxEntries different names, in the
\* order of the archive
EntryLists ==
  LET paths == { <<"lib", "arm64-v8a", "libfoo.so">>, <<"lib", "arm64-v8a", "libbar.so">>,
                 <<"lib", "x86", "libfoo.so">>, <<"lib", "x86", "readme.txt">>,
                 <<"lib", "foo.so">>, <<"assets", "foo.so">>, <<"classes.dex">>,
                 <<"base", "lib", "arm64-v8a", "libfoo.so">>,
                 <<"base", "lib", "arm64-v8a", "libbar.so">>,
                 <<"base", "lib", "x86", "libfoo.so">>, <<"base", "lib", "foo.so">>,
                 <<"base", "dex", "classes.dex">> }
  IN UNION { {s \in [1 .. n -> paths] : \A i, j \in 1 .. n : s[i] = s[j] => i = j} :
             n \in 0 .. MaxEntries }

\* [...new Set(list)] from element i of list on: acc holds the elements met
\* so far, each once, in the order they were first met
RECURSIVE SetOf(_, _, _)
SetOf(list, i, acc) ==
  IF i > Len(list) THEN acc
  ELSE SetOf(list, i + 1,
             IF \E k \in 1 .. Len(acc) : acc[k] = list[i] THEN acc
             ELSE Append(acc, list[i]))

\* info.architectures: apk-parser.js lines 61-64 (f.startsWith('lib/') &&
\* f.endsWith('.so'), f.split('/')[1]) and aab-parser.js lines 82-85
\* (/^base\/lib\/[^/]+\/.*\.so$/, f.split('/')[2])
NativeLibs(type, files) ==
  LET soFiles ==
        SelectSeq(files,
          LAMBDA f :
            IF type = "APK"
            THEN Len(f) >= 2 /\ f[1] = "lib" /\ f[Len(f)] \in SoNames
            ELSE /\ Len(f) >= 4 /\ f[1] = "base" /\ f[2] = "lib" /\ f[3] # ""
                 /\ f[Len(f)] \in SoNames)
  IN IF soFiles = <<>> THEN JsNull
     ELSE [t |-> "array",
           items |-> SetOf([i \in 1 .. Len(soFiles) |->
                              soFiles[i][IF type = "APK" THEN 2 ELSE 3]], 1, <<>>)]

PRInit ==
  /\ projPc = "idle"
  /\ archive = [type |-> "none", files |-> <<>>]
  /\ architectures = JsNull
  /\ application = [tag |-> "application", name |-> "", children |-> <<>>]
  /\ activities = <<>>

\* everything outside this machine
PROthers == UNCHANGED <<bpVars, axVars, pxVars, uiVars, mbVars, pngVars,
    pdVars,
    ixVars>>

\* the native libs of APKParser.parse (60-64) and AABParser.parse (81-85)
PRNativeLibs ==
  /\ projPc = "idle"
  /\ \E type \in {"APK", "AAB"}, files \in EntryLists :
       /\ archive' = [type |-> type, files |-> files]
       /\ architectures' = NativeLibs(type, files)
  /\ projPc' = "libs"
  /\ UNCHANGED <<application, activities>>
  /\ PROthers

\* info.activities of _extractManifest, lines 102-105
PRActivities ==
  /\ projPc = "idle"
  /\ \E app \in Applications :
       /\ application' = app
       /\ activities' =
            [i \in 1 .. Len(Children(app, "activity")) |->
               [name |-> Children(app, "activity")[i].name,
                isLauncher |-> IsLauncher(Children(app, "activity")[i])]]
  /\ projPc' = "manifest"
  /\ UNCHANGED <<archive, architectures>>
  /\ PROthers

PRNext == PRNativeLibs \/ PRActivities

\* the places of the <activity> children among the children of application
ActivityPlaces ==
  {k \in 1 .. Len(application.children) : application.children[k].tag = "activity"}

\* an intent-filter child of el holds an action MAIN and a category LAUNCHER
HasMainLauncherFilter(el) ==
  \E i \in 1 .. Len(el.children) :
    /\ el.children[i].tag = "intent-filter"
    /\ \E j \in 1 .. Len(el.children[i].children) :
         /\ el.children[i].children[j].tag = "action"
         /\ el.children[i].children[j].name = "android.intent.action.MAIN"
    /\ \E j \in 1 .. Len(el.children[i].children) :
         /\ el.children[i].children[j].tag = "category"
         /\ el.children[i].children[j].name = "android.intent.category.LAUNCHER"

(***************************************************************************)
(* C14: info.activities holds the <activity> children of <application>    *)
(* in manifest order, and an activity is marked launcher if and only if   *)
(* one intent-filter child of it holds both an action named               *)
(* android.intent.action.MAIN and a category named                        *)
(* android.intent.category.LAUNCHER.                                       *)
(***************************************************************************)
C14_LauncherIffOneFilterHasBoth ==
  projPc = "manifest" =>
    /\ Len(activities) = Cardinality(ActivityPlaces)
    /\ \A k \in ActivityPlaces :
         LET i == Cardinality({j \in ActivityPlaces : j <= k})
         IN /\ activities[i].name = application.children[k].name
            /\ activities[i].isLauncher <=> HasMainLauncherFilter(application.children[k])

\* two activities: the first has MAIN and LAUNCHER in two different
\* intent-filters, the second has both in one
C14_Witness ==
  /\ projPc = "manifest"
  /\ Len(activities) = 2
  /\ Len(application.children[1].children) = 2
  /\ \A i \in 1 .. 2 : Len(application.children[1].children[i].children) = 1
  /\ application.children[1].children[1].children[1].name = "android.intent.action.MAIN"
  /\ application.children[1].children[2].children[1].name = "android.intent.category.LAUNCHER"
  /\ \A i \in 1 .. 2 : application.children[1].children[i].tag = "intent-filter"
  /\ ~activities[1].isLauncher
  /\ activities[2].isLauncher

\* the entries of the archive that match lib/<arch>/*.so (APK) or
\* base/lib/<arch>/*.so (AAB)
LibEntries ==
  {k \in 1 .. Len(archive.files) :
     LET f == archive.files[k]
     IN IF archive.type = "APK"
        THEN Len(f) = 3 /\ f[1] = "lib" /\ f[3] \in SoNames
        ELSE Len(f) = 4 /\ f[1] = "base" /\ f[2] = "lib" /\ f[4] \in SoNames}

(***************************************************************************)
(* C15: info.architectures holds exactly the <arch> directory names of    *)
(* the entries matching lib/<arch>/*.so (APK) or base/lib/<arch>/*.so     *)
(* (AAB), each once, in the order they are first met; an entry directly   *)
(* under lib/ gives no architecture.  (No architecture at all is null.)   *)
(***************************************************************************)
C15_ArchitecturesOfLibEntries ==
  projPc = "libs" =>
    LET archOf(k) == archive.files[k][IF archive.type = "APK" THEN 2 ELSE 3]
        list == IF architectures = JsNull THEN <<>> ELSE architectures.items
        first(a) == CHOOSE k \in LibEntries :
                      archOf(k) = a /\ \A j \in LibEntries : archOf(j) = a => k <= j
    IN /\ {list[i] : i \in 1 .. Len(list)} = {archOf(k) : k \in LibEntries}
       /\ \A i, j \in 1 .. Len(list) :
            i < j => list[i] # list[j] /\ first(list[i]) < first(list[j])

(***************************************************************************)
(* Parse calls one after the other.                                        *)
(*                                                                         *)
(* Every call site is new Parser(buffer).parse(): the instance of a call  *)
(* that has ended is dropped and the next call runs the constructor.  A   *)
(* parse is synchronous, so a call begins only when no other is running.  *)
(***************************************************************************)
Ended(status) == status \in {"returned", "thrown"}

\* the next new BPlistParser(buffer), bplist-parser.js lines 11-18
BPAgain ==
  /\ Ended(bpStatus)
  /\ bpStatus' = "idle"
  /\ offsets' = <<>>
  /\ topIndex' = 0
  /\ bpStack' = <<>>
  /\ bpCall' = <<>>
  /\ bpRet' = <<>>
  /\ parsed' = <<>>
  /\ bpParseCount' = [i \in RefValues |-> 0]
  /\ bpResolved' = [i \in RefValues |-> {}]
  /\ bpResult' = JsUndefined
  /\ BPOthers

\* the next new AXMLParser(buffer), main.js lines 260-267, and the locals
\* of its parse()
AXAgain ==
  /\ Ended(axStatus)
  /\ axStatus' = "idle"
  /\ axLen' = 0
  /\ axType' = -1
  /\ axFileSize' = 0
  /\ offset' = 0
  /\ strings' = <<>>
  /\ resourceIds' = 0
  /\ namespaces' = <<>>
  /\ axNodes' = <<>>
  /\ stack' = <<0>>
  /\ axResult' = JsUndefined
  /\ AXOthers

\* the ProtoXMLParser of the call that ended is dropped as it is; the next
\* call constructs its own (PXConstruct)
PXAgain ==
  /\ Ended(pxStatus)
  /\ pxStatus' = "idle"
  /\ pxDoc' = NoDoc
  /\ pxBuf' = <<>>
  /\ pxResult' = JsUndefined
  /\ pxDropped' = pxNamespaces
  /\ UNCHANGED pxNamespaces
  /\ PXOthers

BPCall == axStatus = "idle" /\ pxStatus = "idle" /\ BPNext
AXCall == bpStatus = "idle" /\ pxStatus = "idle" /\ AXNext
PXCall == bpStatus = "idle" /\ axStatus = "idle" /\ PXNext

CallsNext == BPCall \/ AXCall \/ PXCall \/ BPAgain \/ AXAgain \/ PXAgain

(***************************************************************************)
(* C19: a parse call carries nothing over from the calls before it.  A    *)
(* ProtoXMLParser call that has ended, whatever was parsed before it, has *)
(* the result the parse of its buffer gives on its own, and it began with *)
(* an empty namespace map; a BPlistParser call begins with an empty       *)
(* offset table and an empty memo, an AXMLParser call with an empty       *)
(* string pool and an empty namespace map.                                *)
(***************************************************************************)
C19_NoStateBetweenCalls ==
  /\ Ended(pxStatus) => pxResult = ProtoXMLParse(pxBuf).val
  /\ pxStatus = "constructed" => pxNamespaces = <<>>
  /\ bpStatus = "idle" => offsets = <<>> /\ parsed = <<>>
  /\ axStatus = "idle" =>
       strings = <<>> /\ namespaces = <<>> /\ offset = 0 /\ resourceIds = 0

\* a manifest whose attribute names a namespace it does not declare has
\* been parsed after a manifest that declared one
C19_Witness ==
  /\ pxStatus = "returned"
  /\ pxDropped # <<>>
  /\ ~pxDoc.nsDecl
  /\ pxDoc.attrNs
  /\ pxResult.t = "element"
  /\ DOMAIN pxResult.attributes = {"versionCode"}

(***************************************************************************)
(* The specifications: one per machine, all from the same initial state.  *)
(***************************************************************************)
Init == BPInit /\ AXInit /\ PXInit /\ UIInit /\ MBInit /\ PNGInit /\ PRInit /\ PDInit /\ IXInit

SpecBPlist == Init /\ [][BPNext]_vars

SpecAXML == Init /\ [][AXNext]_vars

\* the call is made and runs on: a step that can be taken is taken
SpecAXMLFair == Init /\ [][AXNext]_vars /\ WF_vars(AXNext)

SpecProto == Init /\ [][PXNext]_vars

SpecUI == Init /\ [][UINext]_vars

SpecManifestBuffer == Init /\ [][MBNext]_vars

SpecCgBI == Init /\ [][PNGNext]_vars

SpecProjection == Init /\ [][PRNext]_vars

SpecCalls == Init /\ [][CallsNext]_vars

SpecDecoder == Init /\ [][PDNext]_vars

SpecIcon == Init /\ [][IXNext]_vars

====
